---------------------------- MODULE Spec2Model ----------------------------
(***************************************************************************)
(* Reminder application: the reminder store (crud.py, models.py), the      *)
(* recurring-reminder service (recurring_service.py) and the background    *)
(* scheduler (scheduler.py).                                               *)
(*                                                                         *)
(* A datetime is the number of minutes since 2025-01-01T00:00 (naive local *)
(* time, as the code computes with naive datetimes).  Python's None is     *)
(* None for datetimes, identities and numbers, NoneStr for strings and     *)
(* NoneDict for dictionaries.                                              *)
(***************************************************************************)
EXTENDS Integers, Sequences, FiniteSets, TLC

VARIABLES
    store,     \* the reminders table: id -> row
    nextId,    \* the next fresh identity (uuid4 never repeats)
    now,       \* the wall clock, minutes since 2025-01-01T00:00
    last,      \* what the last create or recurring-service call returned
    is_running,             \* ReminderScheduler.is_running
    job,                    \* the cron job: None, or its */n minute step
    notification_handlers,  \* ReminderScheduler.notification_handlers
    tick,                   \* the tick in progress on the scheduler thread
    notified                \* ids handed to the dispatcher so far

vars == <<store, nextId, now, last, is_running, job, notification_handlers,
          tick, notified>>

storeVars == <<store, nextId>>
pollerVars == <<is_running, job, notification_handlers, tick, notified>>

---------------------------------------------------------------------------
(* Bounds of the model. *)

\* reminders created directly through crud.create_reminder
MaxReminders == 1
\* minutes the clock advances
MaxTime == 1
\* reminders created while the scheduler is observed
MaxDue == 2
\* notification handlers registered
MaxHandlers == 2

---------------------------------------------------------------------------
(* Python values. *)

None == 0 - 1
NoneStr == "<None>"
NoneDict == [py_none |-> TRUE]

\* `if not pattern`: None and the empty dict are falsy
Truthy(d) == d # NoneDict /\ DOMAIN d # {}

\* dict.get(key, default)
Get(d, key, default) == IF key \in DOMAIN d THEN d[key] ELSE default

\* a JSON string where a dictionary is expected
PyStr(text) == [py_str |-> text]

\* the value has the methods of a dict (None is asked only after `if not`)
IsDict(d) == "py_str" \notin DOMAIN d

---------------------------------------------------------------------------
(* The proleptic Gregorian calendar of datetime / dateutil. *)

IsLeap(y) == (y % 4 = 0 /\ y % 100 # 0) \/ y % 400 = 0

DaysInMonth(y, m) ==
    IF m = 2 THEN (IF IsLeap(y) THEN 29 ELSE 28)
    ELSE IF m \in {4, 6, 9, 11} THEN 30 ELSE 31

\* days from 1970-01-01 to the day d of the month mp (March is 0) of the
\* March-based year y2 >= 0
DaysFromEra(y2, mp, d) ==
    (y2 \div 400) * 146097 + (y2 % 400) * 365 + ((y2 % 400) \div 4)
        - ((y2 % 400) \div 100) + ((153 * mp + 2) \div 5) + d - 1 - 719468

\* days from 1970-01-01 to y-m-d
DaysFromCivil(y, m, d) ==
    DaysFromEra(IF m <= 2 THEN y - 1 ELSE y, (m + 9) % 12, d)

CivilFromMp(y0, mp, doy) ==
    [y |-> y0 + (IF mp >= 10 THEN 1 ELSE 0),
     m |-> IF mp < 10 THEN mp + 3 ELSE mp - 9,
     d |-> doy - ((153 * mp + 2) \div 5) + 1]

CivilFromDoy(y0, doy) == CivilFromMp(y0, (5 * doy + 2) \div 153, doy)

CivilFromYoe(era, doe, yoe) ==
    CivilFromDoy(yoe + era * 400,
                 doe - (365 * yoe + (yoe \div 4) - (yoe \div 100)))

CivilFromDoe(era, doe) ==
    CivilFromYoe(era, doe,
        (doe - (doe \div 1460) + (doe \div 36524) - (doe \div 146096)) \div 365)

\* the date [y, m, d] that lies z days after 1970-01-01
CivilFromDays(z) ==
    CivilFromDoe((z + 719468) \div 146097, (z + 719468) % 146097)

EpochDay == DaysFromCivil(2025, 1, 1)

\* datetime(y, m, d, hh, mm)
DateTime(y, m, d, hh, mm) ==
    (DaysFromCivil(y, m, d) - EpochDay) * 1440 + hh * 60 + mm

DateOf(t) == CivilFromDays((t \div 1440) + EpochDay)
TimeOfDay(t) == t % 1440

\* datetime.weekday(): Monday is 0, Sunday is 6 (1970-01-01 was a Thursday)
Weekday(t) == ((t \div 1440) + EpochDay + 3) % 7

\* t + timedelta(days=n), t + timedelta(weeks=n), t + timedelta(minutes=n)
PlusDays(t, n) == t + n * 1440
PlusWeeks(t, n) == t + n * 7 * 1440
PlusMinutes(t, n) == t + n

\* a month arithmetic that does not clamp the day
ClampDaySpilling(y, m, d) == d

\* relativedelta: the day of the month is clamped to the month's length
ClampDay(y, m, d) == IF d > DaysInMonth(y, m) THEN DaysInMonth(y, m) ELSE d

\* the datetime of day d (clamped) in month number mi = 12 * year + month - 1
FromMonthIndex(mi, d, tod) ==
    DateTime(mi \div 12, (mi % 12) + 1, ClampDay(mi \div 12, (mi % 12) + 1, d),
             0, 0) + tod

PlusMonthsCivil(c, n, tod) == FromMonthIndex(c.y * 12 + (c.m - 1) + n, c.d, tod)

\* t + relativedelta(months=n): calendar months, the day clamped
PlusMonths(t, n) == PlusMonthsCivil(DateOf(t), n, TimeOfDay(t))

\* t + relativedelta(years=n)
PlusYears(t, n) == PlusMonths(t, 12 * n)

DayOutOfMonth(c, d) == d < 1 \/ d > DaysInMonth(c.y, c.m)

\* t.replace(day=d) raises ValueError when the month has no such day
ReplaceDayRaises(t, d) == DayOutOfMonth(DateOf(t), d)

ReplaceDayCivil(c, d, tod) == DateTime(c.y, c.m, d, 0, 0) + tod

ReplaceDay(t, d) == ReplaceDayCivil(DateOf(t), d, TimeOfDay(t))

---------------------------------------------------------------------------
(* recurring_service.py: the recurrence calculator. *)

\* a scan that gives up one day early
RECURSIVE WeeklyScanShort(_, _, _)
WeeklyScanShort(next_date, days_of_week, remaining) ==
    IF remaining <= 1 THEN None
    ELSE IF Weekday(next_date) \in days_of_week THEN next_date
    ELSE WeeklyScanShort(PlusDays(next_date, 1), days_of_week, remaining - 1)

\* a scan that goes on for a week after max_days
RECURSIVE WeeklyScanOver(_, _, _)
WeeklyScanOver(next_date, days_of_week, remaining) ==
    IF remaining + 7 <= 0 THEN None
    ELSE IF Weekday(next_date) \in days_of_week THEN next_date
    ELSE WeeklyScanOver(PlusDays(next_date, 1), days_of_week, remaining - 1)

\* the number of days the loop of the weekly branch looks at
RECURSIVE WeeklyScanLength(_, _, _)
WeeklyScanLength(next_date, days_of_week, remaining) ==
    IF remaining <= 0 THEN 0
    ELSE IF Weekday(next_date) \in days_of_week THEN 1
    ELSE 1 + WeeklyScanLength(PlusDays(next_date, 1), days_of_week,
                              remaining - 1)

\* the scan of the weekly branch: `for _ in range(max_days)`
RECURSIVE WeeklyScan(_, _, _)
WeeklyScan(next_date, days_of_week, remaining) ==
    IF remaining <= 0 THEN None
    ELSE IF Weekday(next_date) \in days_of_week THEN next_date
    ELSE WeeklyScan(PlusDays(next_date, 1), days_of_week, remaining - 1)

\* the first day of the month after next_date: the `- timedelta(days=1)`
\* left out
FirstDayOfNextMonth(next_date) == PlusMonths(ReplaceDay(next_date, 1), 1)

\* next_date.replace(day=1) + relativedelta(months=1) - timedelta(days=1)
LastDayOfMonth(next_date) ==
    PlusDays(PlusMonths(ReplaceDay(next_date, 1), 1), 0 - 1)

\* a monthly branch that sets day_of_month only when the month lacks it
MonthlyNextKeepsDay(next_date, pattern) ==
    IF "day_of_month" \in DOMAIN pattern
    THEN IF ReplaceDayRaises(next_date, pattern.day_of_month)
         THEN LastDayOfMonth(next_date)
         ELSE next_date
    ELSE next_date

\* the monthly branch after `next_date = current_date + relativedelta(...)`
MonthlyNext(next_date, pattern) ==
    IF "day_of_month" \in DOMAIN pattern
    THEN IF ReplaceDayRaises(next_date, pattern.day_of_month)
         THEN LastDayOfMonth(next_date)
         ELSE ReplaceDay(next_date, pattern.day_of_month)
    ELSE next_date

\* a calculation whose daily branch adds one day whatever the interval
NextByFrequencyDailyStep(current_date, pattern, frequency, interval) ==
    IF frequency = "daily" THEN PlusDays(current_date, 1)
    ELSE IF frequency = "weekly" THEN
        IF "days_of_week" \notin DOMAIN pattern
        THEN PlusWeeks(current_date, interval)
        ELSE WeeklyScan(PlusDays(current_date, 1), pattern.days_of_week,
                        7 * interval)
    ELSE IF frequency = "monthly" THEN
        MonthlyNext(PlusMonths(current_date, interval), pattern)
    ELSE IF frequency = "yearly" THEN PlusYears(current_date, interval)
    ELSE None

\* the branches with the weekly scan starting at the day `start`
NextWithScanFrom(current_date, pattern, frequency, interval, start) ==
    IF frequency = "daily" THEN PlusDays(current_date, interval)
    ELSE IF frequency = "weekly" THEN
        IF "days_of_week" \notin DOMAIN pattern
        THEN PlusWeeks(current_date, interval)
        ELSE WeeklyScan(start, pattern.days_of_week, 7 * interval)
    ELSE IF frequency = "monthly" THEN
        MonthlyNext(PlusMonths(current_date, interval), pattern)
    ELSE IF frequency = "yearly" THEN PlusYears(current_date, interval)
    ELSE None

\* a calculation whose weekly scan starts at the reference date itself
NextByFrequencyFromToday(current_date, pattern, frequency, interval) ==
    NextWithScanFrom(current_date, pattern, frequency, interval, current_date)

\* a calculation whose weekly scan starts in the week interval weeks on
NextByFrequencySkippingWeeks(current_date, pattern, frequency, interval) ==
    NextWithScanFrom(current_date, pattern, frequency, interval,
                     PlusDays(current_date, 1 + 7 * (interval - 1)))

\* the branches of the try block, by frequency
NextByFrequency(current_date, pattern, frequency, interval) ==
    IF frequency = "daily" THEN PlusDays(current_date, interval)
    ELSE IF frequency = "weekly" THEN
        IF "days_of_week" \notin DOMAIN pattern
        THEN PlusWeeks(current_date, interval)
        ELSE WeeklyScan(PlusDays(current_date, 1), pattern.days_of_week,
                        7 * interval)
    ELSE IF frequency = "monthly" THEN
        MonthlyNext(PlusMonths(current_date, interval), pattern)
    ELSE IF frequency = "yearly" THEN PlusYears(current_date, interval)
    ELSE None

Frequencies == {"daily", "weekly", "monthly", "yearly"}

\* a statement of the try block raises: timedelta and relativedelta raise
\* TypeError for interval None (as does 7 * None), and replace(day=None)
\* raises TypeError, which `except ValueError` does not catch
TryRaises(pattern, frequency, interval) ==
    \/ frequency \in Frequencies /\ interval = None
    \/ /\ frequency = "monthly"
       /\ "day_of_month" \in DOMAIN pattern
       /\ pattern.day_of_month = None

\* calculate_next_occurrence raises to its caller: pattern.get(...) stands
\* before the try block, and only a dict has it (AttributeError)
CalculateNextOccurrenceRaises(pattern) == Truthy(pattern) /\ ~IsDict(pattern)

\* what calculate_next_occurrence returns when it returns; `except
\* Exception` turns what the try block raises into None
CalculateNextOccurrence(current_date, pattern) ==
    IF ~Truthy(pattern) \/ ~IsDict(pattern) THEN None
    ELSE IF TryRaises(pattern, Get(pattern, "frequency", NoneStr),
                      Get(pattern, "interval", 1))
    THEN None
    ELSE NextByFrequency(current_date, pattern,
                         Get(pattern, "frequency", NoneStr),
                         Get(pattern, "interval", 1))

\* The text of pattern["end_date"]: an ISO datetime without offset
\* ("2025-01-01T08:58:00"), an ISO date ("2025-01-01"), an ISO datetime with
\* a UTC offset ("2025-01-01T08:58:00+00:00"), or no ISO text at all.  `at`
\* is the minute the text denotes, on the clock datetime.now() reads.
IsoNaive(t) == [iso |-> "naive", at |-> t]
IsoDate(t) == [iso |-> "date", at |-> t]
IsoAware(t) == [iso |-> "aware", at |-> t]
IsoInvalid == [iso |-> "invalid", at |-> None]

\* datetime.fromisoformat(text) raises ValueError
FromIsoformatRaises(text) == text.iso = "invalid"

\* datetime.fromisoformat(text): the datetime and whether it carries tzinfo;
\* a date is the midnight that starts it
FromIsoformat(text) ==
    [at     |-> IF text.iso = "date" THEN (text.at \div 1440) * 1440
                ELSE text.at,
     tzinfo |-> text.iso = "aware"]

\* datetime.now() >= end_date raises TypeError: naive against aware
CompareRaises(end_date) == end_date.tzinfo

\* should_create_next_occurrence without the is_recurring test
ShouldCreateNextOccurrenceAnyReminder(reminder, clock) ==
    IF ~Truthy(reminder.recurrence_pattern) THEN FALSE
    ELSE IF reminder.status # "completed" THEN FALSE
    ELSE IF /\ "end_date" \in DOMAIN reminder.recurrence_pattern
            /\ ~FromIsoformatRaises(reminder.recurrence_pattern.end_date)
            /\ ~CompareRaises(FromIsoformat(reminder.recurrence_pattern.end_date))
            /\ clock >= FromIsoformat(reminder.recurrence_pattern.end_date).at
         THEN FALSE
    ELSE TRUE

\* should_create_next_occurrence that is false only in the minute of
\* end_date
ShouldCreateNextOccurrenceAtEnd(reminder, clock) ==
    IF ~reminder.is_recurring THEN FALSE
    ELSE IF ~Truthy(reminder.recurrence_pattern) THEN FALSE
    ELSE IF reminder.status # "completed" THEN FALSE
    ELSE IF /\ "end_date" \in DOMAIN reminder.recurrence_pattern
            /\ ~FromIsoformatRaises(reminder.recurrence_pattern.end_date)
            /\ ~CompareRaises(FromIsoformat(reminder.recurrence_pattern.end_date))
            /\ clock = FromIsoformat(reminder.recurrence_pattern.end_date).at
         THEN FALSE
    ELSE TRUE

\* should_create_next_occurrence that ends a series whose count is used up
\* by its first occurrence
ShouldCreateNextOccurrenceCounting(reminder, clock) ==
    IF ~reminder.is_recurring THEN FALSE
    ELSE IF ~Truthy(reminder.recurrence_pattern) THEN FALSE
    ELSE IF reminder.status # "completed" THEN FALSE
    ELSE IF /\ "end_date" \in DOMAIN reminder.recurrence_pattern
            /\ ~FromIsoformatRaises(reminder.recurrence_pattern.end_date)
            /\ ~CompareRaises(FromIsoformat(reminder.recurrence_pattern.end_date))
            /\ clock >= FromIsoformat(reminder.recurrence_pattern.end_date).at
         THEN FALSE
    ELSE IF /\ "count" \in DOMAIN reminder.recurrence_pattern
            /\ reminder.recurrence_pattern.count <= 1
         THEN FALSE
    ELSE TRUE

\* should_create_next_occurrence(reminder) when datetime.now() reads clock;
\* ValueError and TypeError of the end_date test are passed over
ShouldCreateNextOccurrence(reminder, clock) ==
    IF ~reminder.is_recurring THEN FALSE
    ELSE IF ~Truthy(reminder.recurrence_pattern) THEN FALSE
    ELSE IF reminder.status # "completed" THEN FALSE
    ELSE IF /\ "end_date" \in DOMAIN reminder.recurrence_pattern
            /\ ~FromIsoformatRaises(reminder.recurrence_pattern.end_date)
            /\ ~CompareRaises(FromIsoformat(reminder.recurrence_pattern.end_date))
            /\ clock >= FromIsoformat(reminder.recurrence_pattern.end_date).at
         THEN FALSE
    ELSE TRUE

---------------------------------------------------------------------------
(* crud.py and models.py: the reminders table. *)

\* the keyword parameters of crud.create_reminder (db apart)
CreateReminderParams ==
    {"user_id", "title", "due_date_time", "timezone", "description",
     "priority", "tags", "is_recurring", "recurrence_pattern",
     "natural_language_input", "parsed_by_ai"}

\* those without a default
CreateReminderRequired == {"user_id", "title", "due_date_time"}

\* a call with keyword arguments kw raises TypeError before its body runs
\* when it names a parameter the function does not have, or leaves a
\* required one out
CreateReminderTypeError(kw) ==
    \/ ~(DOMAIN kw \subseteq CreateReminderParams)
    \/ ~(CreateReminderRequired \subseteq DOMAIN kw)

\* "ok", or the exception the call raises: TypeError at the call, or the
\* storage error of db.commit()
CreateReminderOutcome(kw, dbOk) ==
    IF CreateReminderTypeError(kw) THEN "TypeError"
    ELSE IF ~dbOk THEN "StorageError"
    ELSE "ok"

\* Reminder(...): the row, with the column defaults of models.py
NewReminder(kw) ==
    [user_id                |-> kw.user_id,
     title                  |-> kw.title,
     description            |-> Get(kw, "description", NoneStr),
     due_date_time          |-> kw.due_date_time,
     timezone               |-> Get(kw, "timezone", "UTC"),
     priority               |-> Get(kw, "priority", "medium"),
     tags                   |-> Get(kw, "tags", <<>>),
     is_recurring           |-> Get(kw, "is_recurring", FALSE),
     recurrence_pattern     |-> Get(kw, "recurrence_pattern", NoneDict),
     natural_language_input |-> Get(kw, "natural_language_input", NoneStr),
     parsed_by_ai           |-> Get(kw, "parsed_by_ai", FALSE),
     status                 |-> "pending",
     completed_at           |-> None,
     location               |-> NoneStr,
     ai_confidence          |-> None,
     last_notified_at       |-> None]

\* the table after crud.create_reminder added the row under a fresh id
StoreWith(st, id, kw) ==
    [i \in DOMAIN st \cup {id} |-> IF i = id THEN NewReminder(kw) ELSE st[i]]

\* crud.update_reminder: setattr of every keyword that is an attribute
UpdatedRow(row, kwargs) ==
    [k \in DOMAIN row |-> IF k \in DOMAIN kwargs THEN kwargs[k] ELSE row[k]]

StoreUpdated(st, id, kwargs) ==
    IF id \in DOMAIN st
    THEN [st EXCEPT ![id] = UpdatedRow(st[id], kwargs)]
    ELSE st

\* datetime.utcnow(): the process runs with its local zone at UTC
UtcNow(clock) == clock

\* crud.complete_reminder
StoreCompleted(st, id, clock) ==
    [st EXCEPT ![id] = [@ EXCEPT !.status = "completed",
                                 !.completed_at = UtcNow(clock)]]

\* a get_due_reminders whose window leaves out its upper end
GetDueRemindersExclusive(st, start_time, end_time, status) ==
    {i \in DOMAIN st : /\ st[i].status = status
                       /\ st[i].due_date_time >= start_time
                       /\ st[i].due_date_time < end_time}

\* a get_due_reminders that also returns what is due before start_time
GetDueRemindersUpTo(st, start_time, end_time, status) ==
    {i \in DOMAIN st : /\ st[i].status = status
                       /\ st[i].due_date_time <= end_time}

\* crud.get_due_reminders: the ids of the rows the query matches
GetDueReminders(st, start_time, end_time, status) ==
    {i \in DOMAIN st : /\ st[i].status = status
                       /\ st[i].due_date_time >= start_time
                       /\ st[i].due_date_time <= end_time}

---------------------------------------------------------------------------
(* What the last call of crud.create_reminder or of the recurring service  *)
(* returned: the operation, the reminder it was given, the id of the       *)
(* reminder it returned (None for None), whether an exception reached the  *)
(* caller, and how the call of crud.create_reminder inside it ended ("-"   *)
(* when it made none).  For start() and stop() of the scheduler, log is    *)
(* the line the call wrote to the log.  For crud.get_due_reminders, found   *)
(* is the set of the ids of the reminders it returned.                     *)

Returned(op, id, ret, create) ==
    [op |-> op, id |-> id, ret |-> ret, raised |-> FALSE, create |-> create,
     log |-> "-", found |-> {}]
Raised(op, id, create) ==
    [op |-> op, id |-> id, ret |-> None, raised |-> TRUE, create |-> create,
     log |-> "-", found |-> {}]
Logged(op, line) ==
    [op |-> op, id |-> None, ret |-> None, raised |-> FALSE, create |-> "-",
     log |-> line, found |-> {}]
Found(op, ids) ==
    [op |-> op, id |-> None, ret |-> None, raised |-> FALSE, create |-> "-",
     log |-> "-", found |-> ids]

\* after a call whose result no caller in the model looks at
NoResult == Returned("-", None, None, "-")

---------------------------------------------------------------------------
(* crud.py as the callers use it. *)

\* crud.create_reminder(db, **kw)
CreateReminder(kw, dbOk) ==
    /\ IF CreateReminderOutcome(kw, dbOk) = "ok"
       THEN /\ store' = StoreWith(store, nextId, kw)
            /\ nextId' = nextId + 1
            /\ last' = Returned("create_reminder", None, nextId, "ok")
       ELSE /\ UNCHANGED storeVars
            /\ last' = Raised("create_reminder", None,
                              CreateReminderOutcome(kw, dbOk))
    /\ UNCHANGED <<now, pollerVars>>

\* PUT /reminders/{id}: crud.update_reminder(db, id, **kwargs) with the
\* fields of a ReminderUpdateRequest that the request sets
UpdateReminder(id, kwargs) ==
    /\ id \in DOMAIN store
    /\ store' = StoreUpdated(store, id, kwargs)
    /\ last' = NoResult
    /\ UNCHANGED <<nextId, now, pollerVars>>

\* POST /reminders/{id}/complete: crud.complete_reminder(db, id)
CompleteReminder(id) ==
    /\ id \in DOMAIN store
    /\ store' = StoreCompleted(store, id, now)
    /\ last' = NoResult
    /\ UNCHANGED <<nextId, now, pollerVars>>

\* the default of the parameter status of crud.get_due_reminders
GetDueRemindersDefaultStatus == "active"

\* crud.get_due_reminders(db, start_time, end_time) when passed is NoneStr
\* (the status left at its default), or with status=passed
GetDueRemindersCall(start_time, end_time, passed) ==
    /\ last' = IF passed = NoneStr
               THEN Found("get_due_reminders",
                          GetDueReminders(store, start_time, end_time,
                                          GetDueRemindersDefaultStatus))
               ELSE Found("get_due_reminders_status",
                          GetDueReminders(store, start_time, end_time, passed))
    /\ UNCHANGED <<storeVars, now, pollerVars>>

---------------------------------------------------------------------------
(* main.py: POST /reminders, the intake of a reminder in natural language. *)

ValidPriorities == {"low", "medium", "high", "urgent"}

\* openai_service.validate_parsed_reminder(parsed): "ok", or the error
ValidateParsedReminder(parsed) ==
    IF Get(parsed, "title", NoneStr) \in {NoneStr, ""}
    THEN "Title is required"
    ELSE IF "due_date_time" \notin DOMAIN parsed
    THEN "Due date/time is required"
    ELSE IF FromIsoformatRaises(parsed.due_date_time)
    THEN "Invalid due_date_time format (must be ISO 8601)"
    ELSE IF /\ Get(parsed, "priority", NoneStr) \notin {NoneStr, ""}
            /\ parsed.priority \notin ValidPriorities
    THEN "Priority must be one of: low, medium, high, urgent"
    ELSE IF /\ Get(parsed, "is_recurring", FALSE)
            /\ ~Truthy(Get(parsed, "recurrence_pattern", NoneDict))
    THEN "Recurrence pattern required for recurring reminders"
    ELSE "ok"

\* the keyword arguments the endpoint passes to crud.create_reminder
IntakeKwargs(request, parsed, confidence) ==
    [user_id                |-> request.user_id,
     title                  |-> parsed.title,
     description            |-> Get(parsed, "description", NoneStr),
     due_date_time          |-> FromIsoformat(parsed.due_date_time).at,
     timezone               |-> parsed.timezone,
     priority               |-> parsed.priority,
     tags                   |-> Get(parsed, "tags", <<>>),
     is_recurring           |-> Get(parsed, "is_recurring", FALSE),
     recurrence_pattern     |-> Get(parsed, "recurrence_pattern", NoneDict),
     location               |-> Get(parsed, "location", NoneStr),
     natural_language_input |-> request.natural_input,
     parsed_by_ai           |-> TRUE,
     ai_confidence          |-> confidence]

\* the endpoint once the input is parsed and validated: 201 with the new
\* reminder, or, after `except Exception`, HTTPException 500
PostCreate(kw, dbOk) ==
    IF CreateReminderOutcome(kw, dbOk) = "ok"
    THEN /\ store' = StoreWith(store, nextId, kw)
         /\ nextId' = nextId + 1
         /\ last' = Returned("post_reminders", None, nextId, "ok")
    ELSE /\ UNCHANGED storeVars
         /\ last' = Raised("post_reminders", None, CreateReminderOutcome(kw, dbOk))

\* POST /reminders: parseOk says whether parse_reminder returned; a parse
\* or validation failure is HTTPException 400 or 500 before any storage call
PostReminders(request, parsed, confidence, parseOk, dbOk) ==
    /\ IF ~parseOk \/ ValidateParsedReminder(parsed) # "ok"
       THEN /\ UNCHANGED storeVars
            /\ last' = Raised("post_reminders", None, "-")
       ELSE PostCreate(IntakeKwargs(request, parsed, confidence), dbOk)
    /\ UNCHANGED <<now, pollerVars>>

---------------------------------------------------------------------------
(* recurring_service.py: complete hook, skip, snooze. *)

\* the keyword arguments create_next_occurrence and skip_occurrence pass to
\* crud.create_reminder
SuccessorKwargs(reminder, next_date) ==
    [user_id                |-> reminder.user_id,
     title                  |-> reminder.title,
     description            |-> reminder.description,
     due_date_time          |-> next_date,
     timezone               |-> reminder.timezone,
     priority               |-> reminder.priority,
     tags                   |-> reminder.tags,
     is_recurring           |-> TRUE,
     recurrence_pattern     |-> reminder.recurrence_pattern,
     location               |-> reminder.location,
     natural_language_input |-> reminder.natural_language_input,
     parsed_by_ai           |-> reminder.parsed_by_ai,
     ai_confidence          |-> reminder.ai_confidence]

\* a successor creation that, when crud.create_reminder raises, also undoes
\* what the caller committed before it
CreateSuccessorRollback(st, op, id, kw, dbOk) ==
    IF CreateReminderOutcome(kw, dbOk) = "ok"
    THEN /\ store' = StoreWith(st, nextId, kw)
         /\ nextId' = nextId + 1
         /\ last' = Returned(op, id, nextId, "ok")
    ELSE /\ UNCHANGED storeVars
         /\ last' = Returned(op, id, None, CreateReminderOutcome(kw, dbOk))

\* the try block around crud.create_reminder: the new row and its id, or,
\* after `except Exception`, None and an unchanged table
CreateSuccessor(st, op, id, kw, dbOk) ==
    IF CreateReminderOutcome(kw, dbOk) = "ok"
    THEN /\ store' = StoreWith(st, nextId, kw)
         /\ nextId' = nextId + 1
         /\ last' = Returned(op, id, nextId, "ok")
    ELSE /\ store' = st
         /\ nextId' = nextId
         /\ last' = Returned(op, id, None, CreateReminderOutcome(kw, dbOk))

\* create_next_occurrence(reminder) once next_date is calculated
CreateNextOccurrence(id, reminder, next_date, dbOk) ==
    IF ~ShouldCreateNextOccurrence(reminder, now) \/ next_date = None
    THEN /\ UNCHANGED storeVars
         /\ last' = Returned("on_reminder_completed", id, None, "-")
    ELSE CreateSuccessor(store, "on_reminder_completed", id,
                         SuccessorKwargs(reminder, next_date), dbOk)

\* on_reminder_completed(reminder) -> create_next_occurrence(reminder),
\* with the reminder as stored
OnReminderCompleted(id, dbOk) ==
    /\ id \in DOMAIN store
    /\ IF /\ ShouldCreateNextOccurrence(store[id], now)
          /\ CalculateNextOccurrenceRaises(store[id].recurrence_pattern)
       THEN /\ UNCHANGED storeVars
            /\ last' = Raised("on_reminder_completed", id, "-")
       ELSE CreateNextOccurrence(id, store[id],
                CalculateNextOccurrence(store[id].due_date_time,
                                        store[id].recurrence_pattern), dbOk)
    /\ UNCHANGED <<now, pollerVars>>

\* a skip_occurrence that cancels the reminder before it looks at next_date
SkipWithCancelFirst(id, reminder, next_date, updOk, dbOk) ==
    IF ~reminder.is_recurring
    THEN /\ UNCHANGED storeVars
         /\ last' = Returned("skip_occurrence", id, None, "-")
    ELSE IF ~updOk
    THEN /\ UNCHANGED storeVars
         /\ last' = Returned("skip_occurrence", id, None, "-")
    ELSE IF next_date = None
    THEN /\ store' = StoreUpdated(store, id, [status |-> "cancelled"])
         /\ nextId' = nextId
         /\ last' = Returned("skip_occurrence", id, None, "-")
    ELSE CreateSuccessor(StoreUpdated(store, id, [status |-> "cancelled"]),
                         "skip_occurrence", id,
                         SuccessorKwargs(reminder, next_date), dbOk)

\* a skip_occurrence that cancels the reminder before it looks at
\* is_recurring
SkipWithCancelUnchecked(id, reminder, next_date, updOk, dbOk) ==
    IF ~reminder.is_recurring
    THEN /\ store' = IF updOk
                     THEN StoreUpdated(store, id, [status |-> "cancelled"])
                     ELSE store
         /\ nextId' = nextId
         /\ last' = Returned("skip_occurrence", id, None, "-")
    ELSE IF next_date = None \/ ~updOk
    THEN /\ UNCHANGED storeVars
         /\ last' = Returned("skip_occurrence", id, None, "-")
    ELSE CreateSuccessor(StoreUpdated(store, id, [status |-> "cancelled"]),
                         "skip_occurrence", id,
                         SuccessorKwargs(reminder, next_date), dbOk)

\* skip_occurrence(reminder) once next_date is calculated; updOk and dbOk
\* say whether the commit of the update and of the create succeed
SkipWith(id, reminder, next_date, updOk, dbOk) ==
    IF ~reminder.is_recurring \/ next_date = None
    THEN /\ UNCHANGED storeVars
         /\ last' = Returned("skip_occurrence", id, None, "-")
    ELSE IF ~updOk
    THEN /\ UNCHANGED storeVars
         /\ last' = Returned("skip_occurrence", id, None, "-")
    ELSE CreateSuccessor(StoreUpdated(store, id, [status |-> "cancelled"]),
                         "skip_occurrence", id,
                         SuccessorKwargs(reminder, next_date), dbOk)

\* skip_occurrence(reminder), with the reminder as stored
SkipOccurrence(id, updOk, dbOk) ==
    /\ id \in DOMAIN store
    /\ IF /\ store[id].is_recurring
          /\ CalculateNextOccurrenceRaises(store[id].recurrence_pattern)
       THEN /\ UNCHANGED storeVars
            /\ last' = Raised("skip_occurrence", id, "-")
       ELSE SkipWith(id, store[id],
                CalculateNextOccurrence(store[id].due_date_time,
                                        store[id].recurrence_pattern),
                updOk, dbOk)
    /\ UNCHANGED <<now, pollerVars>>

\* a snooze_reminder that counts the minutes from the due date, not from
\* datetime.now()
SnoozeReminderFromDue(id, snooze_minutes, updOk) ==
    /\ id \in DOMAIN store
    /\ IF updOk
       THEN /\ store' = StoreUpdated(store, id,
                [due_date_time |-> PlusMinutes(store[id].due_date_time,
                                               snooze_minutes)])
            /\ last' = Returned("snooze_reminder", id, id, "-")
       ELSE /\ UNCHANGED store
            /\ last' = Returned("snooze_reminder", id, None, "-")
    /\ UNCHANGED <<nextId, now, pollerVars>>

\* snooze_reminder(reminder, snooze_minutes)
SnoozeReminder(id, snooze_minutes, updOk) ==
    /\ id \in DOMAIN store
    /\ IF updOk
       THEN /\ store' = StoreUpdated(store, id,
                [due_date_time |-> PlusMinutes(now, snooze_minutes)])
            /\ last' = Returned("snooze_reminder", id, id, "-")
       ELSE /\ UNCHANGED store
            /\ last' = Returned("snooze_reminder", id, None, "-")
    /\ UNCHANGED <<nextId, now, pollerVars>>

---------------------------------------------------------------------------
(* The clock. *)

StartNow == DateTime(2025, 1, 1, 8, 57)

AdvanceTime ==
    /\ now < StartNow + MaxTime
    /\ now' = now + 1
    /\ last' = NoResult
    /\ UNCHANGED <<storeVars, pollerVars>>

---------------------------------------------------------------------------
(* scheduler.py: ReminderScheduler.                                        *)
(*                                                                         *)
(* tick is the frame of check_due_reminders on the scheduler thread:       *)
(*   pc      "idle" (no tick runs), "dispatch" (in the loop over           *)
(*           due_reminders) or "close" (at `finally: db.close()`);         *)
(*   firedAt the minute of the last tick (one cron firing a minute);       *)
(*   failed  the query raised (in an idle frame: the query of the tick     *)
(*           that ended last); after: the tick before this one failed;     *)
(*   due     the list the query returned;                                  *)
(*   ri, hi  the reminder and the handler the loops are at;                *)
(*   handed  the reminders _process_reminder was called with;              *)
(*   call    the handler call made last: <<reminder, handler>>;            *)
(*   raisedAt <<ri, hi>> of the first handler call that raised, or <<>>.   *)
(***************************************************************************)

\* a window half as long: two minutes
LookaheadShort == 5 \div 2

\* a window twice as long: ten minutes
LookaheadWide == 2 * 5

LookaheadMinutes == 5

Idle(firedAt) == [pc |-> "idle", firedAt |-> firedAt, failed |-> FALSE]

\* the orders in which storage may return the rows ids
Orderings(ids) ==
    {q \in [1..Cardinality(ids) -> ids] : \A i \in ids : \E k \in DOMAIN q : q[k] = i}

\* add_notification_handler(handler)
AddNotificationHandler(handler) ==
    /\ notification_handlers' = Append(notification_handlers, handler)
    /\ last' = NoResult
    /\ UNCHANGED <<storeVars, now, is_running, job, tick, notified>>

\* a start without the is_running test: the job is added again
StartUnchecked(check_interval_minutes) ==
    /\ job' = check_interval_minutes
    /\ is_running' = TRUE
    /\ last' = Logged("start", "Scheduler started")
    /\ UNCHANGED <<storeVars, now, notification_handlers, tick, notified>>

\* start(check_interval_minutes)
Start(check_interval_minutes) ==
    /\ IF is_running
       THEN /\ UNCHANGED <<is_running, job>>
            /\ last' = Logged("start", "Scheduler is already running")
       ELSE /\ job' = check_interval_minutes
            /\ is_running' = TRUE
            /\ last' = Logged("start", "Scheduler started")
    /\ UNCHANGED <<storeVars, now, notification_handlers, tick, notified>>

\* a stop that abandons the tick in progress
StopInterrupting ==
    /\ IF ~is_running
       THEN /\ UNCHANGED <<is_running, job, tick>>
            /\ last' = Logged("stop", "Scheduler is not running")
       ELSE /\ job # None
            /\ job' = None
            /\ tick' = [Idle(tick.firedAt) EXCEPT !.failed = tick.failed]
            /\ UNCHANGED is_running
            /\ last' = Logged("stop", "-")
    /\ UNCHANGED <<storeVars, now, notification_handlers, notified>>

\* stop() up to scheduler.shutdown(): on a running scheduler the call of
\* shutdown() ends the firing of the job at once and then waits for the
\* tick in progress (is_running and job = None is: inside shutdown())
Stop ==
    /\ IF ~is_running
       THEN /\ UNCHANGED <<is_running, job, tick>>
            /\ last' = Logged("stop", "Scheduler is not running")
       ELSE /\ job # None
            /\ job' = None
            /\ UNCHANGED <<is_running, tick>>
            /\ last' = Logged("stop", "-")
    /\ UNCHANGED <<storeVars, now, notification_handlers, notified>>

\* scheduler.shutdown() returns, no tick being in progress, and stop() sets
\* is_running = False
StopReturns ==
    /\ is_running
    /\ job = None
    /\ tick.pc = "idle"
    /\ is_running' = FALSE
    /\ last' = Logged("stop", "Scheduler stopped")
    /\ UNCHANGED <<storeVars, now, job, notification_handlers, tick, notified>>

\* CronTrigger(minute='*/n') fires in the minutes of the hour n divides
CronFires(n, clock) == ((clock % 60) % n) = 0

\* a check_due_reminders without `except Exception`: the exception of the
\* query leaves the job function
CheckDueRemindersUncaught(dbOk, due_reminders) ==
    /\ is_running
    /\ job # None
    /\ tick.pc = "idle"
    /\ tick.firedAt # now
    /\ CronFires(job, now)
    /\ tick' = [pc      |-> IF dbOk /\ due_reminders # <<>> THEN "dispatch"
                            ELSE "close",
                firedAt |-> now,
                failed  |-> ~dbOk,
                after   |-> tick.failed,
                due     |-> IF dbOk THEN due_reminders ELSE <<>>,
                ri      |-> 1,
                hi      |-> 1,
                handed  |-> <<>>,
                call    |-> <<>>,
                raisedAt |-> <<>>]
    /\ last' = NoResult
    /\ is_running' = dbOk
    /\ job' = IF dbOk THEN job ELSE None
    /\ UNCHANGED <<storeVars, now, notification_handlers, notified>>

\* check_due_reminders up to the loop: the query, or its exception
CheckDueReminders(dbOk, due_reminders) ==
    /\ is_running
    /\ job # None
    /\ tick.pc = "idle"
    /\ tick.firedAt # now
    /\ CronFires(job, now)
    /\ tick' = [pc      |-> IF dbOk /\ due_reminders # <<>> THEN "dispatch"
                            ELSE "close",
                firedAt |-> now,
                failed  |-> ~dbOk,
                after   |-> tick.failed,
                due     |-> IF dbOk THEN due_reminders ELSE <<>>,
                ri      |-> 1,
                hi      |-> 1,
                handed  |-> <<>>,
                call    |-> <<>>,
                raisedAt |-> <<>>]
    /\ last' = NoResult
    /\ UNCHANGED <<storeVars, now, is_running, job, notification_handlers,
                   notified>>

\* the frame after the handler loop of _process_reminder ended for due[ri]
NextReminder(t) ==
    [t EXCEPT !.ri = t.ri + 1, !.hi = 1,
              !.pc = IF t.ri + 1 > Len(t.due) THEN "close" ELSE "dispatch"]

\* the frame after handler number hi was called, raising or not: the
\* exception is caught inside the loop
Noted(t, raises) ==
    IF raises /\ t.raisedAt = <<>>
    THEN [t EXCEPT !.raisedAt = <<t.ri, t.hi>>]
    ELSE t

\* a handler loop without the inner try: a raising handler ends the loop
AfterHandlerAbort(t, raises, handlers) ==
    IF raises \/ t.hi + 1 > Len(handlers)
    THEN NextReminder(Noted(t, raises))
    ELSE [Noted(t, raises) EXCEPT !.hi = t.hi + 1]

AfterHandler(t, raises, handlers) ==
    IF t.hi + 1 > Len(handlers)
    THEN NextReminder(Noted(t, raises))
    ELSE [Noted(t, raises) EXCEPT !.hi = t.hi + 1]

\* a loop that takes the handlers last registered first
HandlerAtReversed(handlers, hi) == handlers[Len(handlers) - hi + 1]

\* `for handler in self.notification_handlers`: the handler the loop is at
HandlerAt(handlers, hi) == handlers[hi]

\* the frame with the call of handler number hi for due[ri] on record
WithCall(t, handlers) ==
    [t EXCEPT !.call = <<t.due[t.ri], HandlerAt(handlers, t.hi)>>]

\* the frame with due[ri] on record as taken up by _process_reminder
Entered(t) ==
    IF t.hi = 1 THEN [t EXCEPT !.handed = Append(t.handed, t.due[t.ri])]
    ELSE t

\* a _process_reminder that stamps last_notified_at on the reminder it
\* takes up
ProcessReminderStamping(raises) ==
    /\ tick.pc = "dispatch"
    /\ tick' = IF tick.hi > Len(notification_handlers)
               THEN NextReminder(Entered(tick))
               ELSE AfterHandler(WithCall(Entered(tick), notification_handlers),
                                 raises, notification_handlers)
    /\ notified' = IF tick.hi = 1
                   THEN notified \cup {tick.due[tick.ri]}
                   ELSE notified
    /\ store' = IF tick.hi = 1
                THEN StoreUpdated(store, tick.due[tick.ri],
                                  [last_notified_at |-> now])
                ELSE store
    /\ last' = NoResult
    /\ UNCHANGED <<nextId, now, is_running, job, notification_handlers>>

\* _process_reminder(due[ri]): one step is one handler call (the first one
\* with the entry of _process_reminder), or the default log without handlers
ProcessReminder(raises) ==
    /\ tick.pc = "dispatch"
    /\ tick' = IF tick.hi > Len(notification_handlers)
               THEN NextReminder(Entered(tick))
               ELSE AfterHandler(WithCall(Entered(tick), notification_handlers),
                                 raises, notification_handlers)
    /\ notified' = IF tick.hi = 1
                   THEN notified \cup {tick.due[tick.ri]}
                   ELSE notified
    /\ last' = NoResult
    /\ UNCHANGED <<storeVars, now, is_running, job, notification_handlers>>

\* finally: db.close(), and check_due_reminders returns
CloseTick ==
    /\ tick.pc = "close"
    /\ tick' = [Idle(tick.firedAt) EXCEPT !.failed = tick.failed]
    /\ last' = NoResult
    /\ UNCHANGED <<storeVars, now, is_running, job, notification_handlers,
                   notified>>

---------------------------------------------------------------------------
(* The calls the lifecycle specification makes. *)

\* 2025-01-01 is a Wednesday
T0 == DateTime(2025, 1, 1, 9, 0)

PatDaily == [frequency |-> "daily", interval |-> 1]
PatWeeklyMonday == [frequency |-> "weekly", interval |-> 1, days_of_week |-> {0}]
PatWeeklyNoDays == [frequency |-> "weekly", interval |-> 1, days_of_week |-> {}]

Recurring(title, pattern) ==
    [user_id |-> "recurring_demo_user", title |-> title,
     description |-> "Team standup meeting", due_date_time |-> T0,
     timezone |-> "America/New_York", priority |-> "high",
     tags |-> <<"work", "daily">>, is_recurring |-> TRUE,
     recurrence_pattern |-> pattern,
     natural_language_input |-> "Daily standup at 10am"]

CreateInputs ==
    { [user_id |-> "user123", title |-> "Call mom", due_date_time |-> T0],
      Recurring("Daily Standup", PatDaily),
      Recurring("Weekly Team Meeting", PatWeeklyMonday),
      Recurring("Weekly Nothing", PatWeeklyNoDays) }

UpdateInputs ==
    { [status |-> "pending"], [status |-> "completed"],
      [status |-> "cancelled"] }

SnoozeInputs == {30}

---------------------------------------------------------------------------
(* The lifecycle specification: the table under create, update, complete,  *)
(* its hook, skip and snooze.                                              *)

Init ==
    /\ store = <<>>
    /\ nextId = 1
    /\ now = StartNow
    /\ last = NoResult
    /\ is_running = FALSE
    /\ job = None
    /\ notification_handlers = <<>>
    /\ tick = Idle(None)
    /\ notified = {}

Next ==
    \/ /\ nextId <= MaxReminders
       /\ \E kw \in CreateInputs, dbOk \in BOOLEAN : CreateReminder(kw, dbOk)
    \/ \E id \in DOMAIN store, kw \in UpdateInputs : UpdateReminder(id, kw)
    \/ \E id \in DOMAIN store : CompleteReminder(id)
    \/ \E id \in DOMAIN store, dbOk \in BOOLEAN : OnReminderCompleted(id, dbOk)
    \/ \E id \in DOMAIN store, updOk \in BOOLEAN, dbOk \in BOOLEAN :
           SkipOccurrence(id, updOk, dbOk)
    \/ \E id \in DOMAIN store, m \in SnoozeInputs, updOk \in BOOLEAN :
           SnoozeReminder(id, m, updOk)
    \/ AdvanceTime

Spec == Init /\ [][Next]_vars

---------------------------------------------------------------------------
(* The scheduler specification: reminders are created and completed while  *)
(* the scheduler, once started, runs its ticks.                            *)

\* due at the end of the first tick's window, and one minute past it
PollerDues == {StartNow + 5, StartNow + 6}

PollerInputs ==
    {[user_id |-> "scheduler_demo_user", title |-> "Take a break",
      due_date_time |-> d] : d \in PollerDues}

IntervalInputs == {1}

NextPoller ==
    \/ /\ nextId <= MaxDue
       /\ \E kw \in PollerInputs : CreateReminder(kw, TRUE)
    \/ \E id \in DOMAIN store : CompleteReminder(id)
    \/ /\ Len(notification_handlers) < MaxHandlers
       /\ AddNotificationHandler(Len(notification_handlers) + 1)
    \/ /\ ~is_running
       /\ \E n \in IntervalInputs : Start(n)
    \/ \E dbOk \in BOOLEAN :
       \E due_reminders \in Orderings(GetDueReminders(store, now,
              PlusMinutes(now, LookaheadMinutes), "pending")) :
           CheckDueReminders(dbOk, due_reminders)
    \/ \E raises \in BOOLEAN : ProcessReminder(raises)
    \/ CloseTick
    \/ AdvanceTime

SpecPoller == Init /\ [][NextPoller]_vars

---------------------------------------------------------------------------
(* The control specification: start() and stop() are called at any time,   *)
(* on a running and on a stopped scheduler, while reminders are created    *)
(* and the ticks run.                                                      *)

ControlInputs ==
    {[user_id |-> "scheduler_demo_user", title |-> "Take a break",
      due_date_time |-> StartNow + 5]}

NextControl ==
    \/ /\ nextId <= MaxDue
       /\ \E kw \in ControlInputs : CreateReminder(kw, TRUE)
    \/ /\ Len(notification_handlers) < MaxHandlers
       /\ AddNotificationHandler(Len(notification_handlers) + 1)
    \/ \E n \in IntervalInputs : Start(n)
    \/ Stop
    \/ StopReturns
    \/ \E dbOk \in BOOLEAN :
       \E due_reminders \in Orderings(GetDueReminders(store, now,
              PlusMinutes(now, LookaheadMinutes), "pending")) :
           CheckDueReminders(dbOk, due_reminders)
    \/ \E raises \in BOOLEAN : ProcessReminder(raises)
    \/ CloseTick
    \/ AdvanceTime

SpecControl == Init /\ [][NextControl]_vars

---------------------------------------------------------------------------
(* The timer specification: the scheduler is started once with an interval *)
(* and its job runs at every minute the cron trigger fires, over a span of *)
(* the clock that crosses 09:00, while a reminder is created and           *)
(* completed.  Every query of the table succeeds.                          *)

MaxTimed == 1

TimerSpan == 12

TimerStart == DateTime(2025, 1, 1, 8, 55)

\* start(1) is the default, setup_default_scheduler passes its argument on
TimerIntervals == {1, 5, 7}

\* due before the clock starts, at 09:03 and at 09:06
TimerDues == {TimerStart - 1, TimerStart + 8, TimerStart + 11}

TimerInputs ==
    {[user_id |-> "scheduler_demo_user", title |-> "Take a break",
      due_date_time |-> d] : d \in TimerDues}

InitTimer ==
    /\ store = <<>>
    /\ nextId = 1
    /\ now = TimerStart
    /\ last = NoResult
    /\ is_running = FALSE
    /\ job = None
    /\ notification_handlers = <<>>
    /\ tick = Idle(None)
    /\ notified = {}

\* the trigger of the job fires in this minute and the job has not run yet
TickIsDue ==
    /\ is_running
    /\ job # None
    /\ CronFires(job, now)
    /\ tick.firedAt # now

\* a minute passes; the scheduler thread runs the job in the minute its
\* trigger fires
ClockRuns ==
    /\ now < TimerStart + TimerSpan
    /\ ~TickIsDue
    /\ now' = now + 1
    /\ last' = NoResult
    /\ UNCHANGED <<storeVars, pollerVars>>

NextTimer ==
    \/ /\ nextId <= MaxTimed
       /\ \E kw \in TimerInputs : CreateReminder(kw, TRUE)
    \/ \E id \in DOMAIN store : CompleteReminder(id)
    \/ /\ ~is_running
       /\ \E n \in TimerIntervals : Start(n)
    \/ \E due_reminders \in Orderings(GetDueReminders(store, now,
              PlusMinutes(now, LookaheadMinutes), "pending")) :
           CheckDueReminders(TRUE, due_reminders)
    \/ ProcessReminder(FALSE)
    \/ CloseTick
    \/ ClockRuns

SpecTimer == InitTimer /\ [][NextTimer]_vars

\* a step of the job on the scheduler thread
TickRuns ==
    \/ \E due_reminders \in Orderings(GetDueReminders(store, now,
              PlusMinutes(now, LookaheadMinutes), "pending")) :
           CheckDueReminders(TRUE, due_reminders)
    \/ ProcessReminder(FALSE)
    \/ CloseTick

\* the timer specification with time passing and the scheduler thread
\* running its job to the end
SpecTimerLive ==
    SpecTimer /\ WF_vars(ClockRuns) /\ WF_vars(TickRuns)

---------------------------------------------------------------------------
(* The series specification: update, complete, its hook and skip on a      *)
(* one-off reminder that carries a pattern and on series that have an      *)
(* end_date.                                                               *)

\* the series ends one minute after StartNow
PatDailyUntil == [frequency |-> "daily", interval |-> 1,
                  end_date |-> IsoNaive(StartNow + 1)]

\* the series ended an hour before StartNow; the text carries a UTC offset
PatDailyUntilAware == [frequency |-> "daily", interval |-> 1,
                       end_date |-> IsoAware(StartNow - 60)]

\* the series ends at StartNow
PatDailyEnded == [frequency |-> "daily", interval |-> 1,
                  end_date |-> IsoNaive(StartNow)]

SeriesInputs ==
    { [user_id |-> "user123", title |-> "Call mom", due_date_time |-> T0,
       recurrence_pattern |-> PatDaily],
      Recurring("Daily Standup", PatDailyUntil),
      Recurring("Daily Standup", PatDailyEnded),
      Recurring("Daily Standup", PatDailyUntilAware) }

NextSeries ==
    \/ /\ nextId <= MaxReminders
       /\ \E kw \in SeriesInputs : CreateReminder(kw, TRUE)
    \/ \E id \in DOMAIN store, kw \in UpdateInputs : UpdateReminder(id, kw)
    \/ \E id \in DOMAIN store : CompleteReminder(id)
    \/ \E id \in DOMAIN store, dbOk \in BOOLEAN : OnReminderCompleted(id, dbOk)
    \/ \E id \in DOMAIN store, updOk \in BOOLEAN, dbOk \in BOOLEAN :
           SkipOccurrence(id, updOk, dbOk)
    \/ AdvanceTime

SpecSeries == Init /\ [][NextSeries]_vars

---------------------------------------------------------------------------
(* The calculator specification: calculate_next_occurrence is called on    *)
(* the due date and the pattern of a stored reminder, and the occurrence   *)
(* it returns is stored as the next reminder of the series.                *)

MaxChain == 2

\* service.calculate_next_occurrence(reminder.due_date_time,
\*                                   reminder.recurrence_pattern)
CalculateNext(id) ==
    /\ id \in DOMAIN store
    /\ last' = IF CalculateNextOccurrenceRaises(store[id].recurrence_pattern)
               THEN Raised("calculate_next_occurrence", id, "-")
               ELSE Returned("calculate_next_occurrence", id,
                        CalculateNextOccurrence(store[id].due_date_time,
                                                store[id].recurrence_pattern),
                        "-")
    /\ UNCHANGED <<storeVars, now, pollerVars>>

\* the keyword arguments that store the occurrence last calculated for the
\* newest reminder
OccurrenceKwargs(reminder, next_date) ==
    [user_id |-> reminder.user_id, title |-> reminder.title,
     due_date_time |-> next_date, is_recurring |-> TRUE,
     recurrence_pattern |-> reminder.recurrence_pattern]

CalcDates ==
    { DateTime(2025, 1, d, 9, 0) : d \in 1..7 } \cup
    { DateTime(2028, 2, 28, 23, 30), DateTime(2025, 12, 31, 0, 0),
      DateTime(2025, 1, 15, 17, 0), DateTime(2028, 1, 31, 17, 0),
      DateTime(2025, 3, 15, 9, 0), DateTime(2025, 3, 31, 9, 0),
      DateTime(2025, 4, 15, 9, 0), DateTime(2025, 4, 30, 9, 0),
      DateTime(2025, 5, 31, 9, 0) }

CalcPatterns ==
    { [frequency |-> "daily"] } \cup
    { [frequency |-> "daily", interval |-> n] : n \in {1, 2, 30} } \cup
    { [frequency |-> "weekly", interval |-> n, days_of_week |-> {0}] :
          n \in {1, 2} } \cup
    { [frequency |-> "monthly", interval |-> n, day_of_month |-> 31] :
          n \in {1, 11, 12} }

CalcInputs ==
    { [user_id |-> "recurring_demo_user", title |-> "Monthly Report",
       due_date_time |-> d, is_recurring |-> TRUE, recurrence_pattern |-> p] :
          d \in CalcDates, p \in CalcPatterns }

NextCalc ==
    \/ /\ nextId = 1
       /\ \E kw \in CalcInputs : CreateReminder(kw, TRUE)
    \/ \E id \in DOMAIN store : CalculateNext(id)
    \/ /\ nextId <= MaxChain
       /\ last.op = "calculate_next_occurrence"
       /\ last.id = nextId - 1
       /\ last.ret # None
       /\ CreateReminder(OccurrenceKwargs(store[last.id], last.ret), TRUE)

SpecCalc == Init /\ [][NextCalc]_vars

---------------------------------------------------------------------------
(* The rules specification: the calculator, complete and its hook on       *)
(* series of every frequency, with and without days_of_week, day_of_month  *)
(* and count; the occurrence the calculator returns is stored as the next  *)
(* reminder of the series.                                                 *)

\* a week of days, ends of months, a leap day and the end of a year
RuleDates ==
    { DateTime(2025, 1, d, 9, 0) : d \in 6..12 } \cup
    { DateTime(2025, 1, 29, 17, 0), DateTime(2025, 1, 31, 17, 0),
      DateTime(2028, 2, 29, 23, 30), DateTime(2025, 3, 31, 0, 0),
      DateTime(2025, 12, 31, 23, 59) }

\* days_of_week: none, one day, two days, Sunday, every day, and a number
\* that is no weekday
RuleWeekdays == { {}, {0}, {2, 4}, {6}, 0..6, {7} }

RuleDaysOfMonth == {1, 15, 29, 30, 31}

RuleBasePatterns ==
    { [frequency |-> "daily"] } \cup
    { [frequency |-> f, interval |-> n] :
          f \in {"daily", "weekly", "yearly"}, n \in {1, 3} } \cup
    { [frequency |-> "weekly", interval |-> n, days_of_week |-> w] :
          n \in {0, 1, 2}, w \in RuleWeekdays } \cup
    { [frequency |-> "monthly", interval |-> n] : n \in {1, 2, 13} } \cup
    { [frequency |-> "monthly", interval |-> n, day_of_month |-> d] :
          n \in {1, 2, 13}, d \in RuleDaysOfMonth }

\* the pattern with "count": c
SetCount(pattern, c) ==
    [k \in DOMAIN pattern \cup {"count"} |->
        IF k = "count" THEN c ELSE pattern[k]]

\* the pattern without "count"
DropCount(pattern) == [k \in DOMAIN pattern \ {"count"} |-> pattern[k]]

RulePatterns ==
    RuleBasePatterns \cup {SetCount(p, 1) : p \in RuleBasePatterns}

RuleInputs ==
    { [user_id |-> "recurring_demo_user", title |-> "Daily Standup",
       due_date_time |-> d, is_recurring |-> TRUE, recurrence_pattern |-> p] :
          d \in RuleDates, p \in RulePatterns }

NextRules ==
    \/ /\ nextId = 1
       /\ \E kw \in RuleInputs : CreateReminder(kw, TRUE)
    \/ \E id \in DOMAIN store : CalculateNext(id)
    \/ /\ nextId <= MaxChain
       /\ last.op = "calculate_next_occurrence"
       /\ last.id = nextId - 1
       /\ last.ret # None
       /\ CreateReminder(OccurrenceKwargs(store[last.id], last.ret), TRUE)
    \/ \E id \in DOMAIN store : CompleteReminder(id)
    \/ \E id \in DOMAIN store : OnReminderCompleted(id, TRUE)

SpecRules == Init /\ [][NextRules]_vars

---------------------------------------------------------------------------
(* The API specification: reminders come in through POST /reminders and    *)
(* through crud.create_reminder, are updated and completed, and are        *)
(* queried by due date.                                                    *)

IntakeRequests ==
    { [natural_input |-> "Call mom tomorrow at 3pm", user_id |-> "test_user_123",
       user_timezone |-> "America/New_York"] }

\* what parse_reminder returned under 'parsed': a one-off reminder, a
\* recurring one, and a recurring one without pattern
ParsedInputs ==
    { [title |-> "Call mom", due_date_time |-> IsoAware(StartNow + 30),
       timezone |-> "America/New_York", is_recurring |-> FALSE,
       priority |-> "medium", tags |-> <<"personal">>],
      [title |-> "Team meeting", due_date_time |-> IsoAware(StartNow + 30),
       timezone |-> "America/New_York", is_recurring |-> TRUE,
       recurrence_pattern |-> PatWeeklyMonday,
       priority |-> "medium", tags |-> <<"work">>],
      [title |-> "Team meeting", due_date_time |-> IsoAware(StartNow + 30),
       timezone |-> "America/New_York", is_recurring |-> TRUE,
       priority |-> "medium", tags |-> <<"work">>] }

\* int(confidence * 100) of calculate_confidence
ConfidenceInputs == {80}

\* due in half an hour, in an hour, and in two days
ApiInputs ==
    { [user_id |-> "test_user", title |-> "Due Soon",
       due_date_time |-> StartNow + 30, timezone |-> "UTC"],
      [user_id |-> "test_user", title |-> "Due In An Hour",
       due_date_time |-> StartNow + 60, timezone |-> "UTC"],
      [user_id |-> "test_user", title |-> "Due Later",
       due_date_time |-> StartNow + 2880, timezone |-> "UTC"] }

\* the status argument of get_due_reminders: left out, or "pending"
StatusInputs == {NoneStr, "pending"}

NextApi ==
    \/ /\ nextId <= MaxReminders
       /\ \E kw \in ApiInputs : CreateReminder(kw, TRUE)
    \/ /\ nextId <= MaxReminders
       /\ \E request \in IntakeRequests, parsed \in ParsedInputs,
             confidence \in ConfidenceInputs, parseOk \in BOOLEAN,
             dbOk \in BOOLEAN :
              PostReminders(request, parsed, confidence, parseOk, dbOk)
    \/ \E id \in DOMAIN store, kw \in UpdateInputs : UpdateReminder(id, kw)
    \/ \E id \in DOMAIN store : CompleteReminder(id)
    \/ \E passed \in StatusInputs :
           GetDueRemindersCall(now, PlusMinutes(now, 60), passed)
    \/ AdvanceTime

SpecApi == Init /\ [][NextApi]_vars

---------------------------------------------------------------------------
(* The malformed-rule specification: the calculator, the completion hook   *)
(* and skip on reminders whose stored recurrence_pattern (a JSON column)   *)
(* is not a well-formed rule.                                              *)

MalformedDates ==
    { T0, DateTime(2025, 1, 31, 9, 0), DateTime(2028, 2, 29, 9, 0) }

\* a string, an unknown and a missing frequency, null and zero intervals,
\* null and zero days of the month, the empty dict, None, and a sound rule
MalformedPatterns ==
    { PyStr("daily"),
      [frequency |-> "hourly", interval |-> 1],
      [interval |-> 1],
      [frequency |-> "daily", interval |-> None],
      [frequency |-> "daily", interval |-> 0],
      [frequency |-> "weekly", interval |-> None, days_of_week |-> {0}],
      [frequency |-> "weekly", interval |-> 0, days_of_week |-> {0}],
      [frequency |-> "monthly", interval |-> 1, day_of_month |-> None],
      [frequency |-> "monthly", interval |-> 1, day_of_month |-> 0],
      [frequency |-> "yearly", interval |-> None],
      <<>>, NoneDict, PatDaily }

MalformedInputs ==
    { [user_id |-> "user123", title |-> "Recurring Task",
       due_date_time |-> d, is_recurring |-> TRUE, recurrence_pattern |-> p] :
          d \in MalformedDates, p \in MalformedPatterns }
    \cup { [user_id |-> "user123", title |-> "Call mom", due_date_time |-> T0] }

\* PUT /reminders/{id} with a ReminderUpdateRequest that sets is_recurring,
\* or sets recurrence_pattern to null
PatternUpdateInputs ==
    { [is_recurring |-> TRUE], [recurrence_pattern |-> NoneDict] }

NextMalformed ==
    \/ /\ nextId = 1
       /\ \E kw \in MalformedInputs : CreateReminder(kw, TRUE)
    \/ \E id \in DOMAIN store, kw \in PatternUpdateInputs :
           UpdateReminder(id, kw)
    \/ \E id \in DOMAIN store : CalculateNext(id)
    \/ \E id \in DOMAIN store : CompleteReminder(id)
    \/ \E id \in DOMAIN store, dbOk \in BOOLEAN : OnReminderCompleted(id, dbOk)
    \/ \E id \in DOMAIN store, updOk \in BOOLEAN, dbOk \in BOOLEAN :
           SkipOccurrence(id, updOk, dbOk)

SpecMalformed == Init /\ [][NextMalformed]_vars

---------------------------------------------------------------------------
(* Properties of the lifecycle specification (Spec).                       *)

Range(q) == {q[k] : k \in DOMAIN q}

\* the occurrence after the stored reminder id
NextDate(id) ==
    CalculateNextOccurrence(store[id].due_date_time,
                            store[id].recurrence_pattern)

\* the step is the call op(id) of the recurring service
Called(op, id) == last'.op = op /\ last'.id = id

\* the step called crud.create_reminder for a successor of id, and storage
\* did not fail
CreatesSuccessor(op, id) ==
    Called(op, id) /\ last'.create \notin {"-", "StorageError"}

\* the step added exactly the row nextId
AddsRow == nextId \notin DOMAIN store /\ DOMAIN store' = DOMAIN store \cup {nextId}

\* C1: when the completion hook runs on a completed recurring reminder that
\* has a pattern without end_date and a next occurrence, the step adds
\* exactly one reminder, pending and due at the next occurrence of the
\* original's due date, and the original stays completed with completed_at
\* set.
C1_CompleteCreatesSuccessor ==
    [][\A id \in DOMAIN store :
          ( /\ Called("on_reminder_completed", id)
            /\ last'.create # "StorageError"
            /\ store[id].is_recurring
            /\ Truthy(store[id].recurrence_pattern)
            /\ "end_date" \notin DOMAIN store[id].recurrence_pattern
            /\ store[id].status = "completed"
            /\ store[id].completed_at # None
            /\ NextDate(id) # None )
          => ( /\ AddsRow
               /\ store'[nextId].status = "pending"
               /\ store'[nextId].due_date_time = NextDate(id)
               /\ store'[id].status = "completed"
               /\ store'[id].completed_at # None )]_vars

\* C5: in every reachable state a reminder has completed_at set if and only
\* if its status is completed.
C5_CompletedAtIffCompleted ==
    \A id \in DOMAIN store :
        (store[id].completed_at # None) <=> (store[id].status = "completed")

\* C6: a step that creates the next occurrence of a reminder adds one row
\* under a fresh id, leaves every field but status of the rows that were
\* there as it was, and leaves exactly one row that stands for the next
\* occurrence.
C6_OneRowPerOccurrence ==
    [][\A id \in DOMAIN store :
          ( \/ CreatesSuccessor("on_reminder_completed", id)
            \/ CreatesSuccessor("skip_occurrence", id) )
          => ( /\ AddsRow
               /\ \A j \in DOMAIN store :
                     [store'[j] EXCEPT !.status = store[j].status] = store[j]
               /\ Cardinality({j \in DOMAIN store' \ {id} :
                      /\ store'[j].user_id = store[id].user_id
                      /\ store'[j].title = store[id].title
                      /\ store'[j].due_date_time = NextDate(id)}) = 1 )]_vars

\* C7: a skip that gets to create the successor leaves the original
\* cancelled with completed_at as it was, and adds exactly one reminder,
\* pending and due at the next occurrence of the original's due date.
C7_SkipCreatesSuccessor ==
    [][\A id \in DOMAIN store :
          CreatesSuccessor("skip_occurrence", id)
          => ( /\ store[id].is_recurring
               /\ AddsRow
               /\ last'.ret = nextId
               /\ store'[id].status = "cancelled"
               /\ store'[id].completed_at = store[id].completed_at
               /\ store'[nextId].status = "pending"
               /\ store'[nextId].due_date_time = NextDate(id) )]_vars

\* the step is a skip of a recurring reminder that has no next occurrence
SkipsWithoutNext(id) ==
    /\ Called("skip_occurrence", id)
    /\ store[id].is_recurring
    /\ NextDate(id) = None

\* C8: a skip of a recurring reminder that has no next occurrence returns
\* None, creates no successor and leaves the original as it was, its status
\* included.
C8_SkipWithoutNextChangesNothing ==
    [][\A id \in DOMAIN store :
          SkipsWithoutNext(id)
          => ( /\ last'.ret = None
               /\ nextId' = nextId
               /\ store' = store )]_vars

\* C8 as the specification words it: a skip of a recurring reminder that
\* has no next occurrence creates no successor and leaves the original
\* cancelled.
C8_SkipWithoutNextCancels ==
    [][\A id \in DOMAIN store :
          SkipsWithoutNext(id)
          => ( /\ last'.ret = None
               /\ DOMAIN store' = DOMAIN store
               /\ store'[id].status = "cancelled" )]_vars

\* a pending recurring reminder without next occurrence was skipped
C8_Witness ==
    /\ last.op = "skip_occurrence"
    /\ last.id \in DOMAIN store
    /\ store[last.id].is_recurring
    /\ NextDate(last.id) = None
    /\ store[last.id].status = "pending"
    /\ last.ret = None

\* C9: when crud.create_reminder raises while complete or skip creates the
\* successor, the call returns None to its caller, no exception reaches the
\* caller, and the original keeps the status committed before: cancelled
\* after skip, completed after complete.
C9_CreateFailureReturnsNone ==
    ( /\ last.op \in {"on_reminder_completed", "skip_occurrence"}
      /\ last.create \in {"TypeError", "StorageError"} )
    => ( /\ ~last.raised
         /\ last.ret = None
         /\ last.id \in DOMAIN store
         /\ store[last.id].status =
                IF last.op = "skip_occurrence" THEN "cancelled"
                ELSE "completed" )

\* crud.create_reminder raised inside a skip: None came back and the
\* original is cancelled
C9_Witness ==
    /\ last.op = "skip_occurrence"
    /\ last.create \in {"TypeError", "StorageError"}
    /\ ~last.raised
    /\ last.ret = None
    /\ store[last.id].status = "cancelled"

\* the fields a successor takes from its original
CarriedFields ==
    {"user_id", "title", "description", "timezone", "priority", "tags",
     "recurrence_pattern", "location", "natural_language_input",
     "parsed_by_ai", "ai_confidence"}

\* C10: whenever complete or skip calls crud.create_reminder for a
\* successor, the call is not rejected for its arguments, and the successor
\* it returns has the original's non-temporal fields, status pending and
\* is_recurring true.
C10_SuccessorCarriesFields ==
    ( /\ last.op \in {"on_reminder_completed", "skip_occurrence"}
      /\ last.create # "-" )
    => ( /\ last.create # "TypeError"
         /\ last.ret # None =>
              /\ \A f \in CarriedFields :
                     store[last.ret][f] = store[last.id][f]
              /\ store[last.ret].status = "pending"
              /\ store[last.ret].is_recurring )

\* C11: a skip of a non-recurring reminder returns None, raises nothing,
\* creates no reminder and leaves every stored reminder, the skipped one
\* with its status included, as it was.
C11_SkipNonRecurringIsNoOp ==
    [][\A id \in DOMAIN store :
          (Called("skip_occurrence", id) /\ ~store[id].is_recurring)
          => ( /\ last'.ret = None
               /\ ~last'.raised
               /\ last'.create = "-"
               /\ nextId' = nextId
               /\ store' = store )]_vars

\* a pending non-recurring reminder was skipped and is still pending
C11_Witness ==
    /\ last.op = "skip_occurrence"
    /\ last.id \in DOMAIN store
    /\ ~store[last.id].is_recurring
    /\ store[last.id].status = "pending"
    /\ last.ret = None

\* C13: snooze_reminder(reminder, minutes) creates no reminder and touches
\* no other reminder; when its update is stored it returns the same
\* reminder with due_date_time = now + minutes and every other field,
\* status, completed_at and recurrence_pattern included, as it was, whether
\* the reminder is recurring or not.
C13_SnoozeMovesDueDateInPlace ==
    [][\A id \in DOMAIN store :
          Called("snooze_reminder", id)
          => ( /\ nextId' = nextId
               /\ DOMAIN store' = DOMAIN store
               /\ \A j \in DOMAIN store \ {id} : store'[j] = store[j]
               /\ last'.ret \in {id, None}
               /\ last'.ret = None => store' = store
               /\ last'.ret = id =>
                    \E minutes \in SnoozeInputs :
                        store'[id] = [store[id] EXCEPT
                                         !.due_date_time = now + minutes] )]_vars

\* a completed recurring reminder was snoozed: same row, new due date
C13_Witness ==
    /\ last.op = "snooze_reminder"
    /\ last.ret = last.id
    /\ store[last.id].is_recurring
    /\ store[last.id].status = "completed"
    /\ store[last.id].completed_at # None
    /\ store[last.id].recurrence_pattern = PatDaily
    /\ store[last.id].due_date_time = now + 30
    /\ Cardinality(DOMAIN store) = 1

\* C26: once completed_at of a reminder is set, no step changes it, a
\* second completion included.
C26_CompletedAtSetOnce ==
    [][\A id \in DOMAIN store :
          store[id].completed_at # None
          => store'[id].completed_at = store[id].completed_at]_vars

---------------------------------------------------------------------------
(* Properties of the series specification (SpecSeries).                    *)

\* the step is crud.complete_reminder(id)
Completes(id) ==
    /\ store' # store
    /\ store' = [store EXCEPT ![id] = [@ EXCEPT !.status = "completed",
                                                !.completed_at = now]]

\* C12: neither the completion of a non-recurring reminder nor its
\* completion hook changes the number of stored reminders, and the hook
\* does not call crud.create_reminder.
C12_CompleteNonRecurringCreatesNothing ==
    [][\A id \in DOMAIN store :
          ( /\ ~store[id].is_recurring
            /\ Completes(id) \/ Called("on_reminder_completed", id) )
          => ( /\ Cardinality(DOMAIN store') = Cardinality(DOMAIN store)
               /\ nextId' = nextId
               /\ Called("on_reminder_completed", id)
                    => last'.create = "-" /\ last'.ret = None )]_vars

\* the hook ran on a completed non-recurring reminder that carries a
\* pattern, and that reminder is still the only one
C12_Witness ==
    /\ last.op = "on_reminder_completed"
    /\ last.id \in DOMAIN store
    /\ ~store[last.id].is_recurring
    /\ Truthy(store[last.id].recurrence_pattern)
    /\ store[last.id].status = "completed"
    /\ Cardinality(DOMAIN store) = 1

\* the pattern of r has an end_date, and the minute it denotes is not
\* after clock
EndReached(r, clock) ==
    /\ Truthy(r.recurrence_pattern)
    /\ "end_date" \in DOMAIN r.recurrence_pattern
    /\ r.recurrence_pattern.end_date.iso # "invalid"
    /\ clock >= r.recurrence_pattern.end_date.at

C15_ShouldCreateNextIff ==
    \A id \in DOMAIN store :
        ShouldCreateNextOccurrence(store[id], now)
        <=> ( /\ store[id].is_recurring
              /\ Truthy(store[id].recurrence_pattern)
              /\ store[id].status = "completed"
              /\ ~EndReached(store[id], now) )

\* should_create_next_occurrence(r) is false at clock because of end_date
ExhaustedAt(r, clock) ==
    /\ r.is_recurring
    /\ r.status = "completed"
    /\ EndReached(r, clock)
    /\ r.recurrence_pattern.end_date.iso = "naive"

\* C16: when should_create_next_occurrence is false for a reminder because
\* now has reached its end_date, it is false again in the next state if the
\* reminder is as it was, whatever time has passed; so it stays false for as
\* long as the reminder does not change.
C16_ExhaustionIsStable ==
    [][\A id \in DOMAIN store :
          ( /\ ExhaustedAt(store[id], now)
            /\ ~ShouldCreateNextOccurrence(store[id], now)
            /\ now' >= now
            /\ store'[id] = store[id] )
          => ( /\ ExhaustedAt(store'[id], now')
               /\ ~ShouldCreateNextOccurrence(store'[id], now') )]_vars

\* the hook found a completed series exhausted a minute after its end_date
C16_Witness ==
    /\ last.op = "on_reminder_completed"
    /\ last.create = "-"
    /\ last.id \in DOMAIN store
    /\ ExhaustedAt(store[last.id], now)
    /\ now > store[last.id].recurrence_pattern.end_date.at
    /\ store[last.id].completed_at # None
    /\ store[last.id].completed_at < now
    /\ ~ShouldCreateNextOccurrence(store[last.id], now)

---------------------------------------------------------------------------
(* Properties of the calculator specification (SpecCalc).                  *)

\* calculate_next_occurrence was called with the due date and the pattern
\* of a reminder whose pattern has this frequency
Calculated(frequency) ==
    /\ last.op = "calculate_next_occurrence"
    /\ last.id \in DOMAIN store
    /\ store[last.id].recurrence_pattern.frequency = frequency

RefDate == store[last.id].due_date_time
RefPattern == store[last.id].recurrence_pattern

\* C17: for a daily pattern with interval n (1 when the pattern names none)
\* the result is not None and is the reference date plus n times 24 hours:
\* n days later at the same time of day.
C17_DailyAddsIntervalDays ==
    Calculated("daily")
    => ( /\ last.ret # None
         /\ last.ret = RefDate + 1440 * (IF "interval" \in DOMAIN RefPattern
                                         THEN RefPattern.interval ELSE 1) )

\* every 2 days from 2028-02-28T23:30, over the leap day, is 2028-03-01T23:30
C17_Witness ==
    /\ Calculated("daily")
    /\ RefPattern = [frequency |-> "daily", interval |-> 2]
    /\ RefDate = DateTime(2028, 2, 28, 23, 30)
    /\ last.ret = DateTime(2028, 3, 1, 23, 30)

\* 2025-01-06 is a Monday
IsMonday(t) == ((t - DateTime(2025, 1, 6, 0, 0)) \div 1440) % 7 = 0

\* C18: for a weekly pattern with days_of_week = {0} the result is not
\* None and is the first Monday after the day of the reference date, at the
\* same time of day: one to seven days later, seven when the reference date
\* is itself a Monday.
C18_WeeklyMondayIsNextMonday ==
    ( /\ Calculated("weekly")
      /\ "days_of_week" \in DOMAIN RefPattern
      /\ RefPattern.days_of_week = {0} )
    => ( /\ last.ret # None
         /\ IsMonday(last.ret)
         /\ last.ret > RefDate
         /\ last.ret - RefDate <= 7 * 1440
         /\ (last.ret - RefDate) % 1440 = 0 )

\* from Monday 2025-01-06T09:00 the result is Monday 2025-01-13T09:00
C18_Witness ==
    /\ Calculated("weekly")
    /\ RefPattern.days_of_week = {0}
    /\ RefDate = DateTime(2025, 1, 6, 9, 0)
    /\ IsMonday(RefDate)
    /\ last.ret = DateTime(2025, 1, 13, 9, 0)

\* calculate_next_occurrence was called for a monthly pattern with
\* day_of_month = 31
CalculatedMonthly31 ==
    /\ Calculated("monthly")
    /\ "day_of_month" \in DOMAIN RefPattern
    /\ RefPattern.day_of_month = 31

\* the number, 12 * year + month - 1, of the month that lies interval
\* months after the month of the reference date
TargetMonth == DateOf(RefDate).y * 12 + (DateOf(RefDate).m - 1) + RefPattern.interval

\* C19: for a monthly pattern with day_of_month = 31, when the month that
\* lies interval months after the reference date is an April, the result is
\* the 30th of that April at the time of day of the reference date; from a
\* reference date in April with interval 1 it is the 31st of May.
C19_Day31ClampsInTargetApril ==
    CalculatedMonthly31
    => ( /\ TargetMonth % 12 = 3
            => last.ret = DateTime(TargetMonth \div 12, 4, 30, 0, 0)
                            + (RefDate % 1440)
         /\ (DateOf(RefDate).m = 4 /\ RefPattern.interval = 1)
            => last.ret = DateTime(DateOf(RefDate).y, 5, 31, 0, 0)
                            + (RefDate % 1440) )

\* C19 as the specification words it: for a monthly pattern with
\* day_of_month = 31 and a reference date in April the result is an
\* April 30.
C19_Day31FromAprilIsApril30 ==
    (CalculatedMonthly31 /\ DateOf(RefDate).m = 4)
    => \E y \in 2025..2030 :
           last.ret = DateTime(y, 4, 30, 0, 0) + (RefDate % 1440)

\* from 2025-03-15T09:00 with interval 1 the result is 2025-04-30T09:00
C19_Witness ==
    /\ CalculatedMonthly31
    /\ RefPattern.interval = 1
    /\ RefDate = DateTime(2025, 3, 15, 9, 0)
    /\ last.ret = DateTime(2025, 4, 30, 9, 0)

\* C20: for a monthly pattern with interval 1 and day_of_month = 31 the
\* result lies in the month after the reference date, on day 31 when that
\* month has it and on its last day otherwise, at the same time of day; so
\* from 2025-01-15T17:00 it is 2025-02-28T17:00, and from that date it is
\* 2025-03-31T17:00.
C20_Day31ChainReturnsTo31 ==
    (CalculatedMonthly31 /\ RefPattern.interval = 1)
    => ( /\ last.ret # None
         /\ DateOf(last.ret).y * 12 + DateOf(last.ret).m
              = DateOf(RefDate).y * 12 + DateOf(RefDate).m + 1
         /\ DateOf(last.ret).d =
              ( IF DateOf(last.ret).m \in {1, 3, 5, 7, 8, 10, 12} THEN 31
                ELSE IF DateOf(last.ret).m \in {4, 6, 9, 11} THEN 30
                ELSE IF DateOf(last.ret).y \in {2028, 2032} THEN 29
                ELSE 28 )
         /\ last.ret % 1440 = RefDate % 1440
         /\ RefDate = DateTime(2025, 1, 15, 17, 0)
              => last.ret = DateTime(2025, 2, 28, 17, 0)
         /\ RefDate = DateTime(2025, 2, 28, 17, 0)
              => last.ret = DateTime(2025, 3, 31, 17, 0) )

\* the reminder due 2025-01-15T17:00 was followed by the one due
\* 2025-02-28T17:00, whose next occurrence is 2025-03-31T17:00
C20_Witness ==
    /\ CalculatedMonthly31
    /\ RefPattern.interval = 1
    /\ last.id = 2
    /\ store[1].due_date_time = DateTime(2025, 1, 15, 17, 0)
    /\ store[2].due_date_time = DateTime(2025, 2, 28, 17, 0)
    /\ last.ret = DateTime(2025, 3, 31, 17, 0)

---------------------------------------------------------------------------
(* Properties of the malformed-rule specification (SpecMalformed).         *)

\* the rule is not one the data model allows
InvalidRule(p) ==
    \/ ~Truthy(p)
    \/ ~IsDict(p)
    \/ Get(p, "frequency", NoneStr) \notin Frequencies
    \/ Get(p, "interval", 1) < 1
    \/ "day_of_month" \in DOMAIN p /\ p.day_of_month \notin 1..31

\* C21: calculate_next_occurrence never raises to its caller, and for a
\* rule that is invalid or malformed it returns None.
C21_NextOccurrenceNeverRaises ==
    (last.op = "calculate_next_occurrence" /\ last.id \in DOMAIN store)
    => ( /\ ~last.raised
         /\ InvalidRule(store[last.id].recurrence_pattern)
              => last.ret = None )

\* the rule is not null and has one of the four frequencies
ValidRule(p) ==
    /\ Truthy(p)
    /\ IsDict(p)
    /\ Get(p, "frequency", NoneStr) \in Frequencies

\* C25: every stored reminder with is_recurring true has a
\* recurrence_pattern that is not null and names one of the frequencies
\* daily, weekly, monthly, yearly.
C25_RecurringHasValidPattern ==
    \A id \in DOMAIN store :
        store[id].is_recurring => ValidRule(store[id].recurrence_pattern)

---------------------------------------------------------------------------
(* Properties of the scheduler specification (SpecPoller).                 *)

\* the step is the query of a tick
TickQueries == tick.pc = "idle" /\ tick'.pc # "idle"

\* the step is _process_reminder taking up due[ri]
HandsOver == tick.pc = "dispatch" /\ tick.hi = 1 /\ tick' # tick

\* the step is the call of handler number hi for due[ri]
CallsHandler ==
    /\ tick.pc = "dispatch"
    /\ tick.hi <= Len(notification_handlers)
    /\ tick' # tick

C3_DispatchedOnceInTotal ==
    [][HandsOver => tick.due[tick.ri] \notin notified]_vars

QueryRaises == TickQueries /\ tick'.failed

\* C22: when the query of a tick raises, the exception stays inside the
\* tick: the tick goes to db.close() with nothing to dispatch, so no handler
\* is called in it, the steps of the tick leave is_running and the job as
\* they are, and the tick after it queries and dispatches like any other (its
\* list is the window of its own minute, and all of it is handed over).
C22_QueryFailureStaysInTick ==
    [][ /\ QueryRaises
           => /\ tick'.pc = "close"
              /\ tick'.due = <<>>
              /\ tick'.handed = <<>>
              /\ UNCHANGED <<is_running, job, store, notified>>
        /\ (tick.pc # "idle" /\ tick.failed)
           => /\ tick.pc = "close"
              /\ tick.handed = <<>>
              /\ tick.raisedAt = <<>>
              /\ is_running
              /\ tick' # tick
                   => /\ tick'.pc = "idle"
                      /\ tick'.firedAt = tick.firedAt
                      /\ UNCHANGED <<is_running, job, store, notified>>
        /\ (TickQueries /\ tick.failed /\ ~tick'.failed)
           => /\ tick'.after
              /\ Range(tick'.due) =
                   {i \in DOMAIN store : /\ store[i].status = "pending"
                                         /\ now <= store[i].due_date_time
                                         /\ store[i].due_date_time <= now + 5}
              /\ tick'.pc = IF tick'.due = <<>> THEN "close" ELSE "dispatch"
        /\ (tick.pc = "close" /\ tick'.pc = "idle" /\ tick.after)
           => tick.handed = tick.due ]_vars

\* the tick of 08:57 failed with a reminder due and a handler registered;
\* the tick of 08:58 handed that reminder over, and the poller still runs
C22_Witness ==
    /\ tick.pc = "close"
    /\ tick.after
    /\ ~tick.failed
    /\ tick.firedAt = StartNow + 1
    /\ Len(tick.due) >= 1
    /\ tick.handed = tick.due
    /\ store[tick.due[1]].due_date_time = StartNow + 5
    /\ Len(notification_handlers) >= 1
    /\ is_running
    /\ job # None

\* C29: no step of a tick (the query, a handler call that raises or
\* returns, the default log, db.close()) changes the table: no row is added
\* or removed and status, due_date_time, completed_at and last_notified_at
\* of every row are as before.
C29_TickWritesNothing ==
    [][ tick' # tick
        => ( /\ nextId' = nextId
             /\ DOMAIN store' = DOMAIN store
             /\ \A id \in DOMAIN store :
                    /\ store'[id].status = store[id].status
                    /\ store'[id].due_date_time = store[id].due_date_time
                    /\ store'[id].completed_at = store[id].completed_at
                    /\ store'[id].last_notified_at = store[id].last_notified_at
                    /\ store'[id] = store[id] ) ]_vars

\* a tick ends in which a handler raised; the reminders it handed over are
\* still pending and have no last_notified_at
C29_Witness ==
    /\ tick.pc = "close"
    /\ tick.raisedAt # <<>>
    /\ Len(tick.due) >= 1
    /\ tick.handed = tick.due
    /\ \A id \in Range(tick.due) :
           /\ store[id].status = "pending"
           /\ store[id].last_notified_at = None
           /\ store[id].completed_at = None

\* the place of reminder id in the list the query returned
PosIn(q, id) == CHOOSE k \in DOMAIN q : q[k] = id

\* a step of the tick in which a handler is called
CallsAHandler ==
    /\ tick.pc = "dispatch"
    /\ tick' # tick
    /\ tick.hi <= Len(notification_handlers)

\* C30: in a tick the reminders are taken up one by one in the order of the
\* list the query returned, and the handler calls come one after another:
\* the first call for a reminder is to the handler registered first, the
\* call after the one to handler k for the same reminder is to handler k+1,
\* and a call for the next reminder comes only after the call to the last
\* handler registered for the reminder before it.
C30_DispatchIsSequential ==
    [][ /\ (tick.pc = "dispatch" /\ tick' # tick)
           => /\ tick'.handed = SubSeq(tick.due, 1, tick.ri)
              /\ tick'.pc = "dispatch"
                   => \/ tick'.ri = tick.ri /\ tick'.hi = tick.hi + 1
                      \/ /\ tick'.ri = tick.ri + 1 /\ tick'.hi = 1
                         /\ tick.hi >= Len(notification_handlers)
              /\ tick'.pc = "close"
                   => /\ tick.ri = Len(tick.due)
                      /\ tick.hi >= Len(notification_handlers)
        /\ CallsAHandler
           => /\ tick'.call = <<tick.due[tick.ri], tick.hi>>
              /\ notification_handlers[tick.hi] = tick.hi
              /\ tick.hi = 1
                   => \/ tick.call = <<>>
                      \/ PosIn(tick.due, tick.call[1]) < tick.ri
              /\ tick.hi > 1
                   => tick.call = <<tick.due[tick.ri], tick.hi - 1>>
        /\ (tick.pc # "idle" /\ tick' # tick /\ ~CallsAHandler)
           => (tick'.pc = "idle" \/ tick'.call = tick.call) ]_vars

\* the query returned reminder 2 before reminder 1; both were handed over,
\* two handlers are registered, and the call made last in the tick is the
\* one of the second handler for reminder 1
C30_Witness ==
    /\ tick.pc = "close"
    /\ tick.due = <<2, 1>>
    /\ tick.handed = tick.due
    /\ Len(notification_handlers) = 2
    /\ tick.call = <<1, 2>>

\* C40: when a tick calls a handler for a reminder, the row of the reminder
\* is in the table with status pending at that moment.
C40_HandlerCalledOnlyWhilePending ==
    [][ CallsAHandler
        => /\ tick.due[tick.ri] \in DOMAIN store
           /\ store[tick.due[tick.ri]].status = "pending" ]_vars

---------------------------------------------------------------------------
(* Properties of the control specification (SpecControl).                  *)

\* everything but is_running, job and last
ControlFrame == <<store, nextId, now, notification_handlers, tick, notified>>

\* C23: start() on a running scheduler and stop() on a stopped one only
\* write their warning: is_running, the job and everything else stay as
\* they are.  start() on a stopped scheduler adds the one job and sets
\* is_running; stop() on a running one removes the job and, when shutdown()
\* has returned, clears is_running.  No other step changes is_running or
\* the job, so is_running is true exactly when the last call that changed
\* anything was start, and a job exists only while is_running.
C23_StartStopIdempotent ==
    [][ /\ (last'.op = "start" /\ is_running)
           => /\ last'.log = "Scheduler is already running"
              /\ UNCHANGED <<is_running, job, ControlFrame>>
        /\ (last'.op = "start" /\ ~is_running)
           => /\ last'.log = "Scheduler started"
              /\ job = None
              /\ job' \in IntervalInputs
              /\ is_running'
              /\ UNCHANGED ControlFrame
        /\ (last'.op = "stop" /\ ~is_running)
           => /\ last'.log = "Scheduler is not running"
              /\ UNCHANGED <<is_running, job, ControlFrame>>
        /\ (last'.op = "stop" /\ is_running)
           => /\ job' = None
              /\ is_running' = (last'.log # "Scheduler stopped")
              /\ UNCHANGED ControlFrame
        /\ (is_running' # is_running \/ job' # job)
           => /\ last'.op \in {"start", "stop"}
              /\ is_running' # is_running => (is_running' <=> last'.op = "start")
              /\ job' # None <=> last'.op = "start"
        /\ job # None => is_running ]_vars

\* the scheduler was started, ran a tick and was stopped; a second stop()
\* found it stopped and changed nothing
C23_Witness ==
    /\ last = Logged("stop", "Scheduler is not running")
    /\ ~is_running
    /\ job = None
    /\ tick.pc = "idle"
    /\ tick.firedAt = StartNow

\* C24: stop() called while a tick is in progress leaves the tick as it
\* is; the tick goes on over the list it queried and ends having handed
\* over all of it; is_running is cleared only when no tick is in progress;
\* a tick starts only while the job is scheduled, so none starts once
\* stop() was called, and none is in progress or starts after it returned.
C24_StopLetsTickFinish ==
    [][ /\ (last'.op = "stop" /\ is_running /\ job # None)
           => /\ tick' = tick
              /\ notified' = notified
              /\ is_running'
              /\ job' = None
        /\ (tick.pc # "idle" /\ tick' # tick)
           => /\ tick'.firedAt = tick.firedAt
              /\ tick'.pc = "idle" => (tick.pc = "close" /\ tick.handed = tick.due)
              /\ tick'.pc # "idle" => (/\ tick'.due = tick.due
                                       /\ tick'.ri >= tick.ri
                                       /\ Len(tick'.handed) >= Len(tick.handed))
              /\ UNCHANGED <<is_running, job>>
        /\ TickQueries => (is_running /\ job # None)
        /\ (is_running /\ ~is_running')
           => (tick.pc = "idle" /\ tick' = tick /\ job = None)
        /\ ~is_running => (tick.pc = "idle" /\ job = None) ]_vars

\* stop() was called during a tick that had two reminders to dispatch; the
\* tick has handed over both, and shutdown() has not returned yet
C24_Witness ==
    /\ tick.pc = "close"
    /\ is_running
    /\ job = None
    /\ ~tick.failed
    /\ Len(tick.due) >= 2
    /\ tick.handed = tick.due
    /\ Len(notification_handlers) >= 1

---------------------------------------------------------------------------
(* Properties of the API specification (SpecApi).                          *)

\* C27: a POST /reminders whose input was parsed and validated, and whose
\* storage does not fail, adds exactly one reminder, pending and with
\* completed_at null, and answers with that reminder and no error.
C27_IntakeStoresOnePending ==
    [][ ( /\ last'.op = "post_reminders"
          /\ last'.create \notin {"-", "StorageError"} )
        => ( /\ AddsRow
             /\ \A j \in DOMAIN store : store'[j] = store[j]
             /\ store'[nextId].status = "pending"
             /\ store'[nextId].completed_at = None
             /\ ~last'.raised
             /\ last'.ret = nextId ) ]_vars

\* C28: get_due_reminders(db, start_time, end_time), its status left at the
\* default, returns exactly the reminders that have the status they were
\* created with (pending) and are due within [start_time, end_time]; here
\* start_time is now and end_time an hour later.
C28_DefaultQueryFindsCreated ==
    last.op = "get_due_reminders"
    => \A id \in DOMAIN store :
           id \in last.found
           <=> ( /\ store[id].status = "pending"
                 /\ store[id].due_date_time >= now
                 /\ store[id].due_date_time <= now + 60 )

---------------------------------------------------------------------------
(* Properties of the rules specification (SpecRules).                      *)

CountValues == {0, 1, 2, 100}

\* the patterns that differ from pattern in "count" alone
CountVariants(pattern) ==
    {DropCount(pattern)} \cup {SetCount(pattern, c) : c \in CountValues}

CalculatedScan ==
    /\ Calculated("weekly")
    /\ "days_of_week" \in DOMAIN RefPattern

\* the days, counted from the reference date, among the 7 * interval days
\* after it whose weekday is in days_of_week
ScanHits ==
    {k \in 1..(7 * RefPattern.interval) :
        Weekday(RefDate + 1440 * k) \in RefPattern.days_of_week}

FirstHit == CHOOSE k \in ScanHits : \A j \in ScanHits : k <= j

\* C33: the loop of the weekly branch looks at the days after the reference
\* date one by one and at no more than 7 * interval of them (none for
\* interval 0); the result is the first of them whose weekday is in
\* days_of_week, and None when there is none.
C33_WeeklyScanIsBounded ==
    CalculatedScan
    => /\ WeeklyScanLength(PlusDays(RefDate, 1), RefPattern.days_of_week,
                           7 * RefPattern.interval)
            = (IF ScanHits = {} THEN 7 * RefPattern.interval ELSE FirstHit)
       /\ last.ret = (IF ScanHits = {} THEN None
                      ELSE RefDate + 1440 * FirstHit)
       /\ (RefPattern.days_of_week = {} \/ RefPattern.interval = 0)
            => last.ret = None

\* every 2 weeks with an empty days_of_week: the loop looked at 14 days and
\* the result is None
C33_Witness ==
    /\ CalculatedScan
    /\ RefPattern.days_of_week = {}
    /\ RefPattern.interval = 2
    /\ WeeklyScanLength(PlusDays(RefDate, 1), {}, 14) = 14
    /\ last.ret = None

\* calculate_next_occurrence was called for a pattern with a frequency of
\* the four and an interval of at least 1 (1 when the pattern names none)
CalculatedValid ==
    /\ last.op = "calculate_next_occurrence"
    /\ last.id \in DOMAIN store
    /\ Get(RefPattern, "frequency", NoneStr) \in Frequencies
    /\ Get(RefPattern, "interval", 1) >= 1

\* C37: for a pattern with one of the four frequencies and an interval of
\* at least 1, a result that is not None is later than the reference date;
\* and each stored occurrence of such a series is due later than the one
\* before it.
C37_NextOccurrenceIsLater ==
    /\ (CalculatedValid /\ last.ret # None) => last.ret > RefDate
    /\ \A id \in DOMAIN store :
           ( /\ id > 1
             /\ Get(store[id].recurrence_pattern, "interval", 1) >= 1 )
           => /\ store[id].due_date_time > store[id - 1].due_date_time
              /\ store[id].due_date_time = NextDate(id - 1)

\* weekly on Mondays from Monday 2025-01-06: the second occurrence is stored
\* for 2025-01-13, and the third is calculated as 2025-01-20
C37_Witness ==
    /\ CalculatedValid
    /\ last.id = 2
    /\ RefPattern = [frequency |-> "weekly", interval |-> 1,
                     days_of_week |-> {0}]
    /\ store[1].due_date_time = DateTime(2025, 1, 6, 9, 0)
    /\ store[2].due_date_time = DateTime(2025, 1, 13, 9, 0)
    /\ last.ret = DateTime(2025, 1, 20, 9, 0)

\* C38: for a weekly pattern whose days_of_week is a non-empty set of
\* weekdays 0..6 and whose interval is at least 1, the result is not None,
\* is a whole number of days, 1 to 7, after the reference date, has a weekday
\* of days_of_week, and is what the same pattern gives with any interval
\* from 1 to 4.
C38_WeeklyIgnoresInterval ==
    ( /\ CalculatedScan
      /\ RefPattern.days_of_week # {}
      /\ RefPattern.days_of_week \subseteq 0..6
      /\ RefPattern.interval >= 1 )
    => /\ last.ret # None
       /\ (last.ret - RefDate) % 1440 = 0
       /\ (last.ret - RefDate) \div 1440 \in 1..7
       /\ Weekday(last.ret) \in RefPattern.days_of_week
       /\ \A n \in 1..4 :
              CalculateNextOccurrence(RefDate,
                                      [RefPattern EXCEPT !.interval = n])
                = last.ret

\* every 2 weeks on Wednesdays and Fridays from Thursday 2025-01-09: the
\* result is the next day, Friday 2025-01-10, not a day two weeks on
C38_Witness ==
    /\ CalculatedScan
    /\ RefPattern.days_of_week = {2, 4}
    /\ RefPattern.interval = 2
    /\ RefDate = DateTime(2025, 1, 9, 9, 0)
    /\ last.ret = DateTime(2025, 1, 10, 9, 0)

\* the number, 12 * year + month - 1, of the month of t
MonthNumber(t) == DateOf(t).y * 12 + (DateOf(t).m - 1)

\* C39: for a monthly pattern with an interval of at least 1, without
\* day_of_month or with one from 1 to 31, the result is not None, lies in
\* the month interval months after the month of the reference date, and has
\* the time of day of the reference date.
C39_MonthlyLandsInTargetMonth ==
    ( /\ Calculated("monthly")
      /\ RefPattern.interval >= 1
      /\ "day_of_month" \in DOMAIN RefPattern
            => RefPattern.day_of_month \in 1..31 )
    => /\ last.ret # None
       /\ MonthNumber(last.ret) = MonthNumber(RefDate) + RefPattern.interval
       /\ TimeOfDay(last.ret) = TimeOfDay(RefDate)

\* 13 months from 2025-01-31T17:00 without day_of_month is 2026-02-28T17:00
C39_Witness ==
    /\ Calculated("monthly")
    /\ RefPattern = [frequency |-> "monthly", interval |-> 13]
    /\ RefDate = DateTime(2025, 1, 31, 17, 0)
    /\ last.ret = DateTime(2026, 2, 28, 17, 0)

---------------------------------------------------------------------------
(* Properties of the timer specification (SpecTimer).                      *)

\* C31: a tick that is not the first one of the scheduler comes exactly
\* check_interval_minutes after the tick before it.
C31_TicksAreIntervalApart ==
    [][ (TickQueries /\ tick.firedAt # None)
        => now - tick.firedAt = job ]_vars

\* C34: the clock never runs backwards, the list a tick queries holds no
\* reminder due before the minute of the tick, and a reminder is handed over
\* only by a tick whose minute is not after its due_date_time; so a pending
\* reminder that is overdue at a tick is handed over neither by that tick
\* nor by a later one.
C34_OverdueNeverDispatched ==
    [][ /\ now' >= now
        /\ TickQueries
           => \A id \in DOMAIN store :
                  store[id].due_date_time < now => id \notin Range(tick'.due)
        /\ HandsOver
           => tick.firedAt <= store[tick.due[tick.ri]].due_date_time ]_vars

\* the scheduler runs every minute, at least two ticks have run since a
\* reminder fell due, and the reminder is still pending and was never
\* handed over
C34_Witness ==
    /\ is_running
    /\ job = 1
    /\ tick.pc = "idle"
    /\ \E id \in DOMAIN store :
           /\ store[id].status = "pending"
           /\ store[id].due_date_time >= TimerStart
           /\ store[id].due_date_time + 2 <= tick.firedAt
           /\ id \notin notified

\* the first minute from t on in which CronTrigger(minute='*/n') fires
NextFire(n, t) ==
    CHOOSE m \in t..(t + 60) :
        /\ CronFires(n, m)
        /\ \A k \in t..(m - 1) : ~CronFires(n, k)

\* the minute of the next tick of the running scheduler
NextTickTime == IF TickIsDue THEN now ELSE NextFire(job, now + 1)

\* the scheduler runs with an interval of 1 to 5 minutes and reminder id is
\* pending and due at or after the next tick
Awaits(id) ==
    /\ is_running
    /\ job \in 1..5
    /\ id \in DOMAIN store
    /\ store[id].status = "pending"
    /\ store[id].due_date_time >= NextTickTime

InGap(n, d) ==
    \E t \in (d - 60)..d :
        /\ CronFires(n, t)
        /\ t + 5 < d
        /\ d < NextFire(n, t + 1)

\* C36: under an interval of more than 5 minutes a reminder whose
\* due_date_time lies after the window of one tick and before the next tick
\* is never handed over: it is in no tick's list and was never notified.
C36_GapReminderNeverDispatched ==
    \A id \in DOMAIN store :
        ( /\ job # None
          /\ job > 5
          /\ InGap(job, store[id].due_date_time) )
        => /\ id \notin notified
           /\ tick.pc # "idle" => id \notin Range(tick.due)

\* under interval 7 the ticks of 09:00 and of 09:07 have run, the scheduler
\* still runs, and the reminder due at 09:06 is still pending and was never
\* handed over
C36_Witness ==
    /\ is_running
    /\ job = 7
    /\ tick.pc = "idle"
    /\ tick.firedAt = TimerStart + 12
    /\ \E id \in DOMAIN store :
           /\ store[id].due_date_time = TimerStart + 11
           /\ store[id].status = "pending"
           /\ id \notin notified

===========================================================================
